---- MODULE Spec2Model ----
(***************************************************************************)
(* A model of miru's media identification core: the filename parser        *)
(* (library/parser.rs), the update matcher (library/tracking.rs) and the   *)
(* batch analyzer (library/batch.rs).                                      *)
(*                                                                         *)
(* A string is a sequence of one-character strings, so that the regular    *)
(* expressions of the source can be modelled by what they match.           *)
(* An Option<T> is a sequence of length 0 (None) or 1 (Some(x)).           *)
(***************************************************************************)
EXTENDS Integers, Sequences, FiniteSets, TLC

VARIABLES
    library,            \* check_for_updates: library.shows
    tracked,            \* check_for_updates: library.tracked_shows (the clone)
    existing_torrents,  \* check_for_updates: names of the in-flight torrents
    series_idx,         \* position of `for series in tracked`
    outcome,            \* arm of `match client.search(..)` taken last
    results,            \* Ok(results) of the last search
    best_candidates,    \* the HashMap of the last Ok arm
    updates,            \* the Vec<UpdateResult> being built
    upd_base,           \* history: updates.len() when the last series began
    fetched,            \* history: number of results consumed so far
    searched,           \* history: per series searched, the arm and the records
    pc,                 \* "loop" | "done"
    parsed,             \* the parser's answers on the titles a search returns
    root,               \* analyze_batch: the file-system node at `path`
    reads,              \* analyze_batch: what the two read_dir(path) calls give
    analysis,           \* analyze_batch: the BatchAnalysis returned
    bpc,                \* "idle" | "returned"
    dir_name,           \* categorize_folder: the directory name
    dir_category,       \* categorize_folder: the FolderCategory returned
    file_name,          \* parse_episode_number, parse_season_number: the input
    file_episode,       \* parse_episode_number: the Option<u32> returned
    file_season,        \* parse_season_number: the Option<u32> returned
    user_query,         \* parse_query, build_search_query: the input
    parsed_query,       \* parse_query: the ParsedQuery returned
    search_query,       \* build_search_query: the SearchQuery returned
    overflow_checks,    \* whether the build panics on integer overflow
    called,             \* the functions already applied to their argument
    candidates,         \* score_result, rank_results: the results to rank
    title_scores,       \* score_result: the i32 returned for each candidate
    ranked,             \* rank_results: the slice after the sort
    query_idx,          \* NyaaClient::search: position of `for query_str`
    all_results,        \* NyaaClient::search: the Vec all_results
    seen_magnets,       \* NyaaClient::search: the HashSet seen_magnets
    issued,             \* history: the queries tried and what each returned
    spc                 \* "idle" | "called" | "loop" | "returned" | "panicked"

vars == <<library, tracked, existing_torrents, series_idx, outcome, results,
          best_candidates, updates, upd_base, fetched, searched, pc, parsed,
          root, reads,
          analysis, bpc, dir_name, dir_category, file_name, file_episode,
          file_season, user_query, parsed_query, search_query,
          overflow_checks, called, candidates, title_scores, ranked,
          query_idx, all_results, seen_magnets, issued, spc>>

tracking_vars == <<library, tracked, existing_torrents, series_idx, outcome,
                   results, best_candidates, updates, upd_base, fetched,
                   searched, pc, parsed>>

batch_vars == <<root, reads, analysis, bpc>>

categorize_vars == <<dir_name, dir_category>>

parser_vars == <<file_name, file_episode, file_season>>

query_vars == <<user_query, parsed_query, search_query, overflow_checks>>

rank_vars == <<candidates, title_scores, ranked>>

search_vars == <<query_idx, all_results, seen_magnets, issued, spc>>

\* the variables of the functions that are applied to one argument, and of
\* NyaaClient::search
call_vars == <<categorize_vars, parser_vars, query_vars, called, rank_vars,
               search_vars>>

-----------------------------------------------------------------------------
(* Options and small helpers                                               *)

None == <<>>

Some(x) == <<x>>

IsSome(o) == Len(o) = 1

Unwrap(o) == o[1]

MinOf(S) == CHOOSE x \in S : \A y \in S : x <= y

MaxOf(S) == CHOOSE x \in S : \A y \in S : x >= y

Range(s) == {s[i] : i \in 1..Len(s)}

-----------------------------------------------------------------------------
(* Characters and strings                                                  *)

Digits == <<"0","1","2","3","4","5","6","7","8","9">>

UpperLetters == <<"A","B","C","D","E","F","G","H","I","J","K","L","M",
                  "N","O","P","Q","R","S","T","U","V","W","X","Y","Z">>

LowerLetters == <<"a","b","c","d","e","f","g","h","i","j","k","l","m",
                  "n","o","p","q","r","s","t","u","v","w","x","y","z">>

IsDigit(c) == c \in Range(Digits)

DigitVal(c) == (CHOOSE i \in 1..10 : Digits[i] = c) - 1

\* \s of the regex crate, restricted to the one whitespace of the alphabet
IsSpace(c) == c = " "

\* the character at position i, "" beyond either end of the string
At(s, i) == IF i \in 1..Len(s) THEN s[i] ELSE ""

AtEnd(s, i) == i = Len(s) + 1

\* char::to_lowercase, ASCII
LowerChar(c) ==
    IF c \in Range(UpperLetters)
    THEN LowerLetters[CHOOSE i \in 1..26 : UpperLetters[i] = c]
    ELSE c

\* str::to_lowercase
to_lowercase(s) == [i \in 1..Len(s) |-> LowerChar(s[i])]

\* needle occurs in s at position i
OccursAt(s, i, needle) ==
    /\ i >= 1
    /\ i + Len(needle) - 1 <= Len(s)
    /\ \A j \in 1..Len(needle) : s[i + j - 1] = needle[j]

\* str::contains
Contains(s, needle) == \E i \in 1..(Len(s) + 1) : OccursAt(s, i, needle)

\* str::ends_with
EndsWith(s, suffix) == OccursAt(s, Len(s) - Len(suffix) + 1, suffix)

\* the k characters from position p are all digits
AllDigits(s, p, k) == \A j \in p..(p + k - 1) : IsDigit(At(s, j))

RECURSIVE DigitsValue(_, _, _)
\* the decimal value of the k digits from position p
DigitsValue(s, p, k) ==
    IF k = 0 THEN 0
    ELSE 10 * DigitsValue(s, p, k - 1) + DigitVal(s[p + k - 1])

RECURSIVE SkipSpaces(_, _)
\* the position behind the greedy \s* at p
SkipSpaces(s, p) == IF IsSpace(At(s, p)) THEN SkipSpaces(s, p + 1) ELSE p

\* the greedy length of \d{1,max} at p such that Rest matches behind it, 0 if none
GreedyDigits(s, p, max, Rest(_, _)) ==
    LET ks == {k \in 1..max : AllDigits(s, p, k) /\ Rest(s, p + k)}
    IN IF ks = {} THEN 0 ELSE MaxOf(ks)

\* Regex::captures: the capture of the leftmost match, PatAt(s, i) being the
\* capture of a match that starts at i (None when none starts there)
Leftmost(s, PatAt(_, _)) ==
    LET starts == {i \in 1..(Len(s) + 1) : IsSome(PatAt(s, i))}
    IN IF starts = {} THEN None ELSE PatAt(s, MinOf(starts))

-----------------------------------------------------------------------------
(* library/parser.rs: EPISODE_PATTERNS                                     *)

EpSep(c) == c = "." \/ c = "_" \/ IsSpace(c)

\* (?:\s*[\[\(]|\.|\s|$)
Ep1Tail(s, q) ==
    \/ At(s, q) \in {"[", "(", "."}
    \/ IsSpace(At(s, q))
    \/ AtEnd(s, q)

\* (?:v\d)? followed by the tail
Ep1Version(s, q) ==
    \/ At(s, q) = "v" /\ IsDigit(At(s, q + 1)) /\ Ep1Tail(s, q + 2)
    \/ Ep1Tail(s, q)

\* r"- (\d{1,4})(?:v\d)?(?:\s*[\[\(]|\.|\s|$)"
EpPattern1At(s, i) ==
    IF At(s, i) = "-" /\ At(s, i + 1) = " "
    THEN LET k == GreedyDigits(s, i + 2, 4, Ep1Version)
         IN IF k = 0 THEN None ELSE Some(DigitsValue(s, i + 2, k))
    ELSE None

Ep2Any(s, q) == TRUE

\* [Ee](\d{1,3}) behind the season digits
Ep2Episode(s, q) ==
    /\ At(s, q) \in {"E", "e"}
    /\ GreedyDigits(s, q + 1, 3, Ep2Any) > 0

\* r"[Ss]\d{1,2}[Ee](\d{1,3})"
EpPattern2At(s, i) ==
    IF At(s, i) \in {"S", "s"}
    THEN LET k == GreedyDigits(s, i + 1, 2, Ep2Episode)
         IN IF k = 0 THEN None
            ELSE LET e == i + 1 + k + 1
                 IN Some(DigitsValue(s, e, GreedyDigits(s, e, 3, Ep2Any)))
    ELSE None

\* [._\s]*(?:\[|$|\.)
Ep3Tail(s, q) ==
    \E r \in q..(Len(s) + 1) :
        /\ \A j \in q..(r - 1) : EpSep(At(s, j))
        /\ (At(s, r) \in {"[", "."} \/ AtEnd(s, r))

\* r"[._\s](\d{1,3})[._\s]*(?:\[|$|\.)"
EpPattern3At(s, i) ==
    IF EpSep(At(s, i))
    THEN LET k == GreedyDigits(s, i + 1, 3, Ep3Tail)
         IN IF k = 0 THEN None ELSE Some(DigitsValue(s, i + 1, k))
    ELSE None

\* (?:\s*[-._]|\.mkv|\.mp4|\.avi)
Ep4Tail(s, q) ==
    \/ \E r \in q..Len(s) :
          /\ \A j \in q..(r - 1) : IsSpace(At(s, j))
          /\ At(s, r) \in {"-", ".", "_"}
    \/ OccursAt(s, q, <<".", "m", "k", "v">>)
    \/ OccursAt(s, q, <<".", "m", "p", "4">>)
    \/ OccursAt(s, q, <<".", "a", "v", "i">>)

\* r"^(\d{1,3})(?:\s*[-._]|\.mkv|\.mp4|\.avi)"
EpPattern4At(s, i) ==
    IF i = 1
    THEN LET k == GreedyDigits(s, 1, 3, Ep4Tail)
         IN IF k = 0 THEN None ELSE Some(DigitsValue(s, 1, k))
    ELSE None

RECURSIVE SkipSeps(_, _)
\* the position behind the greedy [\s._]* at q
SkipSeps(s, q) == IF EpSep(At(s, q)) THEN SkipSeps(s, q + 1) ELSE q

\* r"[Ee][Pp](?:isode)?[\s._]*(\d{1,3})"
EpPattern5At(s, i) ==
    IF At(s, i) \in {"E", "e"} /\ At(s, i + 1) \in {"P", "p"}
    THEN LET q == IF OccursAt(s, i + 2, <<"i", "s", "o", "d", "e">>)
                  THEN i + 7 ELSE i + 2
             d == SkipSeps(s, q)
             k == GreedyDigits(s, d, 3, Ep2Any)
         IN IF k = 0 THEN None ELSE Some(DigitsValue(s, d, k))
    ELSE None

\* (?:[._\s]|$)
Ep6Tail(s, q) == EpSep(At(s, q)) \/ AtEnd(s, q)

\* (?:v\d)? followed by the tail
Ep6Version(s, q) ==
    \/ At(s, q) = "v" /\ IsDigit(At(s, q + 1)) /\ Ep6Tail(s, q + 2)
    \/ Ep6Tail(s, q)

\* [Ee](\d{1,4})(?:v\d)?(?:[._\s]|$) with the E at position e
Ep6From(s, e) ==
    IF At(s, e) \in {"E", "e"}
    THEN LET k == GreedyDigits(s, e + 1, 4, Ep6Version)
         IN IF k = 0 THEN None ELSE Some(DigitsValue(s, e + 1, k))
    ELSE None

\* r"(?:[-._\s]|^)[Ee](\d{1,4})(?:v\d)?(?:[._\s]|$)"
EpPattern6At(s, i) ==
    IF (At(s, i) = "-" \/ EpSep(At(s, i))) /\ IsSome(Ep6From(s, i + 1))
    THEN Ep6From(s, i + 1)
    ELSE IF i = 1 THEN Ep6From(s, 1) ELSE None

\* the captures with the first two entries of EPISODE_PATTERNS exchanged
EpisodeCapture_swapped(n, s) ==
    CASE n = 1 -> Leftmost(s, EpPattern2At)
      [] n = 2 -> Leftmost(s, EpPattern1At)
      [] n = 3 -> Leftmost(s, EpPattern3At)
      [] n = 4 -> Leftmost(s, EpPattern4At)
      [] n = 5 -> Leftmost(s, EpPattern5At)
      [] n = 6 -> Leftmost(s, EpPattern6At)

\* pattern.captures(filename) of the n-th entry of EPISODE_PATTERNS
EpisodeCapture(n, s) ==
    CASE n = 1 -> Leftmost(s, EpPattern1At)
      [] n = 2 -> Leftmost(s, EpPattern2At)
      [] n = 3 -> Leftmost(s, EpPattern3At)
      [] n = 4 -> Leftmost(s, EpPattern4At)
      [] n = 5 -> Leftmost(s, EpPattern5At)
      [] n = 6 -> Leftmost(s, EpPattern6At)

NumEpisodePatterns == 6

EpisodeUpper == 1000

\* COMPRESSED_EXTENSION
CompressedExtension == <<".", "z", "s", "t">>

\* filename.strip_suffix(COMPRESSED_EXTENSION).unwrap_or(filename)
StripCompressed(s) ==
    IF EndsWith(s, CompressedExtension)
    THEN SubSeq(s, 1, Len(s) - Len(CompressedExtension))
    ELSE s

EpisodeInRange_any(num) == num >= 0

\* the sanity check of parse_episode_number
EpisodeInRange(num) == num > 0 /\ num < EpisodeUpper

RECURSIVE EpisodeCascade(_, _)
\* the for loop of parse_episode_number from pattern n on
EpisodeCascade(n, s) ==
    IF n > NumEpisodePatterns THEN None
    ELSE LET c == EpisodeCapture(n, s)
         IN IF IsSome(c) /\ EpisodeInRange(Unwrap(c))
            THEN c
            ELSE EpisodeCascade(n + 1, s)

parse_episode_number(filename) == EpisodeCascade(1, StripCompressed(filename))

-----------------------------------------------------------------------------
(* library/parser.rs: SEASON_PATTERNS, parse_season_number                 *)

\* the character U+671F of the ninth pattern, one element of a string
Ki == "<ki>"

\* \w of the regex crate on the alphabet of the model
IsWordChar(c) ==
    c \in Range(UpperLetters) \cup Range(LowerLetters) \cup Range(Digits)
          \cup {"_", Ki}

\* \b between the positions q - 1 and q
WordBoundary(s, q) == IsWordChar(At(s, q - 1)) # IsWordChar(At(s, q))

\* (?i)word at position i, word in lower case
WordAt(s, i, word) ==
    /\ i >= 1
    /\ i + Len(word) - 1 <= Len(s)
    /\ \A j \in 1..Len(word) : LowerChar(s[i + j - 1]) = word[j]

W_season == <<"s", "e", "a", "s", "o", "n">>

W_part == <<"p", "a", "r", "t">>

W_cour == <<"c", "o", "u", "r">>

\* \s*E\d behind the season digits
Se1Tail(s, q) ==
    LET r == SkipSpaces(s, q)
    IN LowerChar(At(s, r)) = "e" /\ IsDigit(At(s, r + 1))

\* r"(?i)\bS(\d{1,2})\s*E\d"
SeasonPattern1At(s, i) ==
    IF WordBoundary(s, i) /\ LowerChar(At(s, i)) = "s"
    THEN LET k == GreedyDigits(s, i + 1, 2, Se1Tail)
         IN IF k = 0 THEN None ELSE Some(DigitsValue(s, i + 1, k))
    ELSE None

\* r"(?i)\bS(\d{1,2})\b"
SeasonPattern2At(s, i) ==
    IF WordBoundary(s, i) /\ LowerChar(At(s, i)) = "s"
    THEN LET k == GreedyDigits(s, i + 1, 2, WordBoundary)
         IN IF k = 0 THEN None ELSE Some(DigitsValue(s, i + 1, k))
    ELSE None

\* (?i)\bword\s*(\d{1,2})\b at position i
WordNumberAt(s, i, word) ==
    IF WordBoundary(s, i) /\ WordAt(s, i, word)
    THEN LET d == SkipSpaces(s, i + Len(word))
             k == GreedyDigits(s, d, 2, WordBoundary)
         IN IF k = 0 THEN None ELSE Some(DigitsValue(s, d, k))
    ELSE None

\* r"(?i)\bSeason\s*(\d{1,2})\b"
SeasonPattern3At(s, i) == WordNumberAt(s, i, W_season)

\* (?:st|nd|rd|th)
OrdinalSuffixes == {<<"s", "t">>, <<"n", "d">>, <<"r", "d">>, <<"t", "h">>}

\* (?:st|nd|rd|th)\s+word\b behind the digits
NthTail(s, q, word) ==
    LET r == SkipSpaces(s, q + 2)
    IN /\ \E suffix \in OrdinalSuffixes : WordAt(s, q, suffix)
       /\ r > q + 2
       /\ WordAt(s, r, word)
       /\ WordBoundary(s, r + Len(word))

NthSeasonTail(s, q) == NthTail(s, q, W_season)

NthCourTail(s, q) == NthTail(s, q, W_cour)

\* r"(?i)\b(\d{1,2})(?:st|nd|rd|th)\s+Season\b"
SeasonPattern4At(s, i) ==
    IF WordBoundary(s, i)
    THEN LET k == GreedyDigits(s, i, 2, NthSeasonTail)
         IN IF k = 0 THEN None ELSE Some(DigitsValue(s, i, k))
    ELSE None

\* r"(?i)\bPart\s*(\d{1,2})\b"
SeasonPattern5At(s, i) == WordNumberAt(s, i, W_part)

\* r"(?i)\bCour\s*(\d{1,2})\b"
SeasonPattern6At(s, i) == WordNumberAt(s, i, W_cour)

\* r"(?i)\b(\d{1,2})(?:st|nd|rd|th)\s+Cour\b"
SeasonPattern7At(s, i) ==
    IF WordBoundary(s, i)
    THEN LET k == GreedyDigits(s, i, 2, NthCourTail)
         IN IF k = 0 THEN None ELSE Some(DigitsValue(s, i, k))
    ELSE None

\* (VIII|VII|VI|IV|IX|III|II|V|X), in the order of the alternation
RomanNumerals ==
    <<<<"V", "I", "I", "I">>,
      <<"V", "I", "I">>,
      <<"V", "I">>,
      <<"I", "V">>,
      <<"I", "X">>,
      <<"I", "I", "I">>,
      <<"I", "I">>,
      <<"V">>,
      <<"X">>>>

roman_to_u32(r) ==
    CASE r = <<"I", "I">> -> Some(2)
      [] r = <<"I", "I", "I">> -> Some(3)
      [] r = <<"I", "V">> -> Some(4)
      [] r = <<"V">> -> Some(5)
      [] r = <<"V", "I">> -> Some(6)
      [] r = <<"V", "I", "I">> -> Some(7)
      [] r = <<"V", "I", "I", "I">> -> Some(8)
      [] r = <<"I", "X">> -> Some(9)
      [] r = <<"X">> -> Some(10)
      [] OTHER -> None

\* r"\b(VIII|VII|VI|IV|IX|III|II|V|X)\b", the capture converted
SeasonPattern8At(s, i) ==
    LET hits == {n \in 1..Len(RomanNumerals) :
                    /\ OccursAt(s, i, RomanNumerals[n])
                    /\ WordBoundary(s, i + Len(RomanNumerals[n]))}
    IN IF WordBoundary(s, i) /\ hits # {}
       THEN roman_to_u32(RomanNumerals[MinOf(hits)])
       ELSE None

KiBehind(s, q) == At(s, q) = Ki

\* r"(\d{1,2})\u{671f}"
SeasonPattern9At(s, i) ==
    LET k == GreedyDigits(s, i, 2, KiBehind)
    IN IF k = 0 THEN None ELSE Some(DigitsValue(s, i, k))

\* (First|Second|...|Tenth), lower case, in the order of the alternation
OrdinalWords ==
    <<<<"f", "i", "r", "s", "t">>,
      <<"s", "e", "c", "o", "n", "d">>,
      <<"t", "h", "i", "r", "d">>,
      <<"f", "o", "u", "r", "t", "h">>,
      <<"f", "i", "f", "t", "h">>,
      <<"s", "i", "x", "t", "h">>,
      <<"s", "e", "v", "e", "n", "t", "h">>,
      <<"e", "i", "g", "h", "t", "h">>,
      <<"n", "i", "n", "t", "h">>,
      <<"t", "e", "n", "t", "h">>>>

ordinal_to_u32(w) ==
    LET lower == to_lowercase(w)
        hits == {n \in 1..Len(OrdinalWords) : OrdinalWords[n] = lower}
    IN IF hits = {} THEN None ELSE Some(MinOf(hits))

\* \s+(?:Season|Cour)\b behind the ordinal word
OrdinalTail(s, q) ==
    LET r == SkipSpaces(s, q)
    IN /\ r > q
       /\ \E word \in {W_season, W_cour} :
             WordAt(s, r, word) /\ WordBoundary(s, r + Len(word))

\* r"(?i)\b(First|...|Tenth)\s+(?:Season|Cour)\b", the capture converted
SeasonPattern10At(s, i) ==
    LET hits == {n \in 1..Len(OrdinalWords) :
                    /\ WordAt(s, i, OrdinalWords[n])
                    /\ OrdinalTail(s, i + Len(OrdinalWords[n]))}
    IN IF WordBoundary(s, i) /\ hits # {}
       THEN LET n == MinOf(hits)
            IN ordinal_to_u32(SubSeq(s, i, i + Len(OrdinalWords[n]) - 1))
       ELSE None

\* pattern.captures(title) of the n-th entry of SEASON_PATTERNS, converted by
\* its CaptureKind
TitleSeasonCapture(n, s) ==
    CASE n = 1 -> Leftmost(s, SeasonPattern1At)
      [] n = 2 -> Leftmost(s, SeasonPattern2At)
      [] n = 3 -> Leftmost(s, SeasonPattern3At)
      [] n = 4 -> Leftmost(s, SeasonPattern4At)
      [] n = 5 -> Leftmost(s, SeasonPattern5At)
      [] n = 6 -> Leftmost(s, SeasonPattern6At)
      [] n = 7 -> Leftmost(s, SeasonPattern7At)
      [] n = 8 -> Leftmost(s, SeasonPattern8At)
      [] n = 9 -> Leftmost(s, SeasonPattern9At)
      [] n = 10 -> Leftmost(s, SeasonPattern10At)

NumTitleSeasonPatterns == 10

SeasonUpper == 100

\* the sanity check of parse_season_number
SeasonInRange(n) == n > 0 /\ n < SeasonUpper

RECURSIVE TitleSeasonCascade(_, _)
\* the for loop of parse_season_number from pattern n on
TitleSeasonCascade(n, s) ==
    IF n > NumTitleSeasonPatterns THEN None
    ELSE LET c == TitleSeasonCapture(n, s)
         IN IF IsSome(c) /\ SeasonInRange(Unwrap(c))
            THEN c
            ELSE TitleSeasonCascade(n + 1, s)

parse_season_number(title) == TitleSeasonCascade(1, title)

-----------------------------------------------------------------------------
(* library/parser.rs: parse_release_group, parse_quality                   *)

\* r"^\[([^\]]+)\]"
parse_release_group(filename) ==
    IF At(filename, 1) = "["
    THEN LET closes == {j \in 3..Len(filename) : filename[j] = "]"}
         IN IF closes = {} \/ At(filename, 2) = "]" THEN None
            ELSE Some(SubSeq(filename, 2, MinOf(closes) - 1))
    ELSE None

Resolutions ==
    { <<"3","6","0">>, <<"4","8","0">>, <<"7","2","0">>,
      <<"1","0","8","0">>, <<"2","1","6","0">> }

\* ((?:360|480|720|1080|2160)[pP]|4[kK]) at position i, lower-cased
QualityAt(s, i) ==
    LET hits == {r \in Resolutions :
                    OccursAt(s, i, r) /\ At(s, i + Len(r)) \in {"p", "P"}}
    IN IF hits # {}
       THEN LET r == CHOOSE r \in hits : TRUE
            IN Some(to_lowercase(SubSeq(s, i, i + Len(r))))
       ELSE IF At(s, i) = "4" /\ At(s, i + 1) \in {"k", "K"}
            THEN Some(to_lowercase(SubSeq(s, i, i + 1)))
            ELSE None

parse_quality(filename) == Leftmost(filename, QualityAt)

-----------------------------------------------------------------------------
(* library/parser.rs: is_video_file                                        *)

\* VIDEO_EXTENSIONS
VideoExtensions ==
    { <<"m","k","v">>, <<"m","p","4">>, <<"a","v","i">>, <<"w","e","b","m">>,
      <<"m","4","v">>, <<"m","o","v">> }

is_video_file(filename) ==
    LET lower == to_lowercase(filename)
    IN IF EndsWith(lower, CompressedExtension)
       THEN LET base == SubSeq(lower, 1, Len(lower) - Len(CompressedExtension))
            IN \E ext \in VideoExtensions : EndsWith(base, ext)
       ELSE \E ext \in VideoExtensions : EndsWith(lower, ext)

-----------------------------------------------------------------------------
(* library/batch.rs: categorize_folder                                     *)

RECURSIVE DigitRun(_, _)
\* the length of the greedy \d+ at p
DigitRun(s, p) == IF IsDigit(At(s, p)) THEN 1 + DigitRun(s, p + 1) ELSE 0

\* the longest digit run whose value is computed; a longer one is past u32
\* for every folder name of the model
MaxU32Digits == 9

\* num_match.as_str().parse::<u32>().ok() of the k digits at p
ParseU32(s, p, k) ==
    IF k >= 1 /\ k <= MaxU32Digits THEN Some(DigitsValue(s, p, k)) ELSE None

\* (?i)^word\s*(\d+) : "Season 1", "Part 2", "Cour 1"
WordSeasonCapture(name, word) ==
    IF OccursAt(to_lowercase(name), 1, word)
    THEN LET d == SkipSpaces(name, Len(word) + 1)
         IN ParseU32(name, d, DigitRun(name, d))
    ELSE None

\* (?:\s|$|-)
SPrefixTail(s, q) == IsSpace(At(s, q)) \/ AtEnd(s, q) \/ At(s, q) = "-"

\* (?i)^S(\d{1,2})(?:\s|$|-)
SPrefixCapture(name) ==
    IF At(name, 1) \in {"S", "s"}
    THEN LET k == GreedyDigits(name, 2, 2, SPrefixTail)
         IN ParseU32(name, 2, k)
    ELSE None

\* pattern.captures(name) and the parse of the n-th entry of SEASON_PATTERNS
SeasonCapture(n, name) ==
    CASE n = 1 -> WordSeasonCapture(name, <<"s","e","a","s","o","n">>)
      [] n = 2 -> SPrefixCapture(name)
      [] n = 3 -> WordSeasonCapture(name, <<"p","a","r","t">>)
      [] n = 4 -> WordSeasonCapture(name, <<"c","o","u","r">>)

NumSeasonPatterns == 4

RECURSIVE SeasonCascade(_, _)
\* the first for loop of categorize_folder from pattern n on
SeasonCascade(n, name) ==
    IF n > NumSeasonPatterns THEN None
    ELSE LET c == SeasonCapture(n, name)
         IN IF IsSome(c) THEN c ELSE SeasonCascade(n + 1, name)

WholeName_contains(name, stem) == Contains(to_lowercase(name), stem)

\* (?i)^stem s?$ : the whole name is the stem, with an optional plural s
WholeName(name, stem) ==
    LET lower == to_lowercase(name)
    IN lower = stem \/ lower = stem \o <<"s">>

\* SPECIAL_PATTERNS, in order; Bonus takes no plural
SpecialCategory(name) ==
    IF \E stem \in {<<"o","v","a">>, <<"o","a","v">>, <<"o","a","d">>} :
           WholeName(name, stem)
    THEN "Ova"
    ELSE IF WholeName(name, <<"s","p","e","c","i","a","l">>) THEN "Special"
    ELSE IF WholeName(name, <<"m","o","v","i","e">>) THEN "Movie"
    ELSE IF WholeName(name, <<"e","x","t","r","a">>) THEN "Extra"
    ELSE IF to_lowercase(name) = <<"b","o","n","u","s">> THEN "Extra"
    ELSE IF \E o \in {"o", "e"}, d \in {"p", "d"} :
                WholeName(name, <<"n", "c", o, d>>)
         THEN "Extra"
    ELSE "Unknown"

\* FolderCategory: [kind, number], number being 0 for every kind but Season
categorize_folder(name) ==
    LET season == SeasonCascade(1, name)
    IN IF IsSome(season)
       THEN [kind |-> "Season", number |-> Unwrap(season)]
       ELSE [kind |-> SpecialCategory(name), number |-> 0]

-----------------------------------------------------------------------------
(* The file and folder names of the model, and the answers of              *)
(* is_video_file and categorize_folder on them                             *)

F_1_mkv == <<"1", ".", "m", "k", "v">>
F_2_MP4 == <<"2", ".", "M", "P", "4">>
F_3_mkv_zst == <<"3", ".", "m", "k", "v", ".", "z", "s", "t">>
F_n_txt == <<"n", ".", "t", "x", "t">>

FileNames == {F_1_mkv, F_2_MP4, F_3_mkv_zst, F_n_txt}

D_Season_2 == <<"S", "e", "a", "s", "o", "n", " ", "2">>
D_Season_1 == <<"S", "e", "a", "s", "o", "n", " ", "1">>
D_S01 == <<"S", "0", "1">>
D_S03 == <<"S", "0", "3">>
D_OVA == <<"O", "V", "A">>
D_Specials == <<"S", "p", "e", "c", "i", "a", "l", "s">>
D_Movies == <<"M", "o", "v", "i", "e", "s">>
D_NCOP == <<"N", "C", "O", "P">>
D_Sub == <<"S", "u", "b">>
D_Fonts == <<"F", "o", "n", "t", "s">>
D_Root == <<"S", "h", "o", "w">>

FolderNames ==
    {D_Season_2, D_Season_1, D_S01, D_S03, D_OVA, D_Specials, D_Movies,
     D_NCOP, D_Sub, D_Fonts, D_Root}

VideoTable == [f \in FileNames |-> is_video_file(f)]

CategoryTable == [d \in FolderNames |-> categorize_folder(d)]

\* is_video_file, read from the table where the name is in it
IsVideo(filename) ==
    IF filename \in FileNames THEN VideoTable[filename]
    ELSE is_video_file(filename)

\* categorize_folder, read from the table where the name is in it
Category(name) ==
    IF name \in FolderNames THEN CategoryTable[name]
    ELSE categorize_folder(name)

-----------------------------------------------------------------------------
(* library/batch.rs: analyze_batch                                         *)
(*                                                                         *)
(* A file-system node is [kind, name, files, dirs]: kind is "dir", "file"  *)
(* or "none"; files are the names of the regular files of a directory and  *)
(* dirs its subdirectories, each in the order read_dir yields them.  A     *)
(* path is the sequence of the names leading to the node.                  *)

\* SpecialsInfo::default()
SpecialsDefault ==
    [ovas |-> << >>, movies |-> << >>, specials |-> << >>, extras |-> << >>]

\* SpecialsInfo::is_empty
is_empty(sp) ==
    sp.ovas = << >> /\ sp.movies = << >> /\ sp.specials = << >>
        /\ sp.extras = << >>

\* SpecialsInfo::total_count
total_count(sp) ==
    Len(sp.ovas) + Len(sp.movies) + Len(sp.specials) + Len(sp.extras)

\* BatchAnalysis::empty()
BatchAnalysisEmpty ==
    [is_batch |-> FALSE, total_videos |-> 0, seasons |-> << >>,
     specials |-> SpecialsDefault, loose_episodes |-> << >>]

\* read_ok is the outcome of fs::read_dir(path)
collect_videos_in_dir(path, node, read_ok) ==
    IF ~read_ok \/ node.kind # "dir" THEN << >>
    ELSE LET vs == SelectSeq(node.files, IsVideo)
         IN [i \in 1..Len(vs) |-> path \o <<vs[i]>>]

\* where the stable sort puts x among the already sorted seasons
InsertByKey(sorted, x) ==
    LET k == Cardinality({i \in 1..Len(sorted) : sorted[i].number <= x.number})
    IN SubSeq(sorted, 1, k) \o <<x>> \o SubSeq(sorted, k + 1, Len(sorted))

sort_by_key_none(seasons) == seasons

RECURSIVE sort_by_key(_)
\* analysis.seasons.sort_by_key(|s| s.number)
sort_by_key(seasons) ==
    IF seasons = << >> THEN << >>
    ELSE InsertByKey(sort_by_key(SubSeq(seasons, 1, Len(seasons) - 1)),
                     seasons[Len(seasons)])

RECURSIVE SumEpisodes(_, _)
\* seasons.iter().map(|s| s.episodes.len()).sum() from season i on
SumEpisodes(seasons, i) ==
    IF i > Len(seasons) THEN 0
    ELSE Len(seasons[i].episodes) + SumEpisodes(seasons, i + 1)

TotalVideos(a) ==
    Len(a.loose_episodes) + SumEpisodes(a.seasons, 1) + total_count(a.specials)

BatchMinVideos == 4

IsBatch_fivePlus(a) ==
    \/ a.seasons # << >>
    \/ a.total_videos >= BatchMinVideos + 1
    \/ ~is_empty(a.specials)

IsBatch(a) ==
    \/ a.seasons # << >>
    \/ a.total_videos >= BatchMinVideos
    \/ ~is_empty(a.specials)

UnknownArm_looseOnly(acc, sub_analysis, videos) ==
    [acc EXCEPT !.loose_episodes = @ \o videos]

\* the FolderCategory::Unknown arm, sub_analysis being analyze_batch of the
\* entry
UnknownArm(acc, sub_analysis, videos) ==
    IF sub_analysis.seasons # << >>
    THEN [acc EXCEPT
            !.seasons = @ \o sub_analysis.seasons,
            !.specials.ovas = @ \o sub_analysis.specials.ovas,
            !.specials.movies = @ \o sub_analysis.specials.movies,
            !.specials.specials = @ \o sub_analysis.specials.specials,
            !.specials.extras = @ \o sub_analysis.specials.extras]
    ELSE [acc EXCEPT !.loose_episodes = @ \o videos]

\* the two read_dir calls on a subdirectory reached by the scan succeed
SubReads == <<TRUE, TRUE>>

RECURSIVE analyze_batch(_, _, _), ScanEntries(_, _, _, _)

EntryArm_extraAsSpecial(acc, entry_path, entry) ==
    LET folder_name == entry.name
        category == Category(folder_name)
        videos == collect_videos_in_dir(entry_path, entry, TRUE)
    IN CASE category.kind = "Season" ->
              [acc EXCEPT !.seasons =
                  Append(@, [number |-> category.number,
                             folder_name |-> folder_name,
                             path |-> entry_path,
                             episodes |-> videos])]
         [] category.kind = "Ova" ->
              [acc EXCEPT !.specials.ovas = @ \o videos]
         [] category.kind \in {"Special", "Extra"} ->
              [acc EXCEPT !.specials.specials = @ \o videos]
         [] category.kind = "Movie" ->
              [acc EXCEPT !.specials.movies = @ \o videos]
         [] category.kind = "Unknown" ->
              UnknownArm(acc, analyze_batch(entry_path, entry, SubReads),
                         videos)

\* the body of the for loop for one subdirectory
EntryArm(acc, entry_path, entry) ==
    LET folder_name == entry.name
        category == Category(folder_name)
        videos == collect_videos_in_dir(entry_path, entry, TRUE)
    IN CASE category.kind = "Season" ->
              [acc EXCEPT !.seasons =
                  Append(@, [number |-> category.number,
                             folder_name |-> folder_name,
                             path |-> entry_path,
                             episodes |-> videos])]
         [] category.kind = "Ova" ->
              [acc EXCEPT !.specials.ovas = @ \o videos]
         [] category.kind = "Special" ->
              [acc EXCEPT !.specials.specials = @ \o videos]
         [] category.kind = "Movie" ->
              [acc EXCEPT !.specials.movies = @ \o videos]
         [] category.kind = "Extra" ->
              [acc EXCEPT !.specials.extras = @ \o videos]
         [] category.kind = "Unknown" ->
              UnknownArm(acc, analyze_batch(entry_path, entry, SubReads),
                         videos)

\* the for loop over the subdirectories from the i-th on
ScanEntries(path, dirs, i, acc) ==
    IF i > Len(dirs) THEN acc
    ELSE ScanEntries(path, dirs, i + 1,
                     EntryArm(acc, path \o <<dirs[i].name>>, dirs[i]))

\* rd = <<first, second>>: the outcomes of the read_dir(path) inside
\* collect_videos_in_dir(path) and of the one that feeds the scan
analyze_batch(path, node, rd) ==
    IF node.kind # "dir"
    THEN IF node.kind = "file" /\ IsVideo(node.name)
         THEN [is_batch |-> FALSE, total_videos |-> 1, seasons |-> << >>,
               specials |-> SpecialsDefault, loose_episodes |-> <<path>>]
         ELSE BatchAnalysisEmpty
    ELSE LET listed == [BatchAnalysisEmpty EXCEPT !.loose_episodes =
                            collect_videos_in_dir(path, node, rd[1])]
         IN IF ~rd[2] THEN listed
            ELSE LET scanned == ScanEntries(path, node.dirs, 1, listed)
                     sorted == [scanned EXCEPT
                                   !.seasons = sort_by_key(@)]
                     counted == [sorted EXCEPT
                                   !.total_videos = TotalVideos(sorted)]
                 IN [counted EXCEPT !.is_batch = IsBatch(counted)]

-----------------------------------------------------------------------------
(* The download folders of the model                                       *)

MaxSubdirs == 2

Dir(name, files, dirs) ==
    [kind |-> "dir", name |-> name, files |-> files, dirs |-> dirs]

File(name) == [kind |-> "file", name |-> name, files |-> << >>, dirs |-> << >>]

Missing == [kind |-> "none", name |-> D_Root, files |-> << >>, dirs |-> << >>]

\* no video, one video, two videos around a text file
FileChoices == { << >>, <<F_1_mkv>>, <<F_2_MP4, F_n_txt, F_3_mkv_zst>> }

\* what an uncategorized folder holds below its own files
NestedChoices ==
    { << >>,
      <<Dir(D_Season_1, <<F_1_mkv>>, << >>)>>,
      <<Dir(D_S03, <<F_1_mkv>>, << >>), Dir(D_Season_1, << >>, << >>)>>,
      <<Dir(D_OVA, <<F_1_mkv>>, << >>)>> }

LeafNames ==
    {D_Season_2, D_S01, D_OVA, D_Specials, D_Movies, D_NCOP, D_Fonts}

SubDirs ==
    {Dir(n, f, << >>) : n \in LeafNames, f \in FileChoices}
        \cup {Dir(D_Sub, f, ds) : f \in FileChoices, ds \in NestedChoices}

\* listings of at most n subdirectories, no name twice
DirLists(n) ==
    UNION { {ds \in [1..k -> SubDirs] :
                \A i, j \in 1..k : i # j => ds[i].name # ds[j].name}
            : k \in 0..n }

RootChoices ==
    {Dir(D_Root, f, ds) : f \in FileChoices, ds \in DirLists(MaxSubdirs)}
        \cup {File(F_1_mkv), File(F_n_txt), Missing}

\* read_dir fails on what is no directory
ReadChoices(node) ==
    IF node.kind = "dir" THEN BOOLEAN \X BOOLEAN ELSE {<<FALSE, FALSE>>}

-----------------------------------------------------------------------------
(* The release titles of the model, and the parser's answers on them       *)

\* "[G] A - 05"
T_G_05 == <<"[","G","]"," ","A"," ","-"," ","0","5">>

\* "A - 06 [720p]"
T_06_720p == <<"A"," ","-"," ","0","6"," ","[","7","2","0","p","]">>

\* "[G] A - 07 [1080p]"
T_G_07_1080p == <<"[","G","]"," ","A"," ","-"," ","0","7"," ","[","1","0","8","0","p","]">>

\* "[H] A - 07 [720P]"
T_H_07_720P == <<"[","H","]"," ","A"," ","-"," ","0","7"," ","[","7","2","0","P","]">>

\* "[G] A [480p]"
T_G_480p == <<"[","G","]"," ","A"," ","[","4","8","0","p","]">>

\* the titles a search can return
ResultTitles == {T_G_05, T_06_720p, T_G_07_1080p, T_H_07_720P, T_G_480p}

\* the parser applied to every title of the model; `parsed` holds this table
\* from the start on
ParsedTitles ==
    [t \in ResultTitles |->
        [episode |-> parse_episode_number(t),
         group |-> parse_release_group(t),
         quality |-> parse_quality(t),
         lower |-> to_lowercase(t)]]

\* parser::parse_episode_number(title) as check_for_updates calls it
TitleEpisode(title) == parsed[title].episode

\* parser::parse_release_group(title) as check_for_updates calls it
TitleGroup(title) == parsed[title].group

\* title.to_lowercase() as check_for_updates calls it
TitleLower(title) == parsed[title].lower

\* parser::parse_quality(title) as check_for_updates calls it
TitleQuality(title) == parsed[title].quality

-----------------------------------------------------------------------------
(* library/models.rs, library/mod.rs: the library read by the matcher      *)

\* the first index of seq whose element satisfies P, 0 if none
FirstIndex(seq, P(_)) ==
    LET hits == {i \in 1..Len(seq) : P(seq[i])}
    IN IF hits = {} THEN 0 ELSE MinOf(hits)

\* Library::get_show
get_show(shows, id) ==
    LET P(s) == s.id = id
        i == FirstIndex(shows, P)
    IN IF i = 0 THEN None ELSE Some(shows[i])

\* Show::get_episode: the flat episode list only
get_episode(show, number) ==
    LET P(e) == e = number
        i == FirstIndex(show.episodes, P)
    IN IF i = 0 THEN None ELSE Some(show.episodes[i])

-----------------------------------------------------------------------------
(* library/tracking.rs: check_for_updates                                  *)

\* the closure of library.shows.iter().find(..): case-insensitive containment
TitleMatches(show, series) ==
    LET s_title == to_lowercase(show.title)
        q_title == to_lowercase(series.title)
    IN Contains(s_title, q_title) \/ Contains(q_title, s_title)

\* library.get_show(&series.id).or_else(|| library.shows.iter().find(..))
existing_show(shows, series) ==
    LET byId == get_show(shows, series.id)
        P(s) == TitleMatches(s, series)
        i == FirstIndex(shows, P)
    IN IF IsSome(byId) THEN byId
       ELSE IF i = 0 THEN None ELSE Some(shows[i])

\* existing_torrents.iter().any(|t| t.name.to_lowercase() == title.to_lowercase())
is_downloading(torrents, title) ==
    \E i \in 1..Len(torrents) :
        to_lowercase(torrents[i]) = TitleLower(title)

\* the two early `continue`s on the matched library show, `show` being the
\* value of existing_show
OwnedOrDownloading(show, torrents, title, ep_num) ==
    IF IsSome(show)
       THEN IF IsSome(get_episode(Unwrap(show), ep_num)) THEN TRUE
            ELSE is_downloading(torrents, title)
       ELSE FALSE

\* the other choice weighed in the source: a title without a group is allowed
GroupRejects_allowMissing(series, title) ==
    IF IsSome(series.filter_group)
    THEN LET parsed_group == TitleGroup(title)
         IN IF IsSome(parsed_group)
            THEN ~Contains(Unwrap(parsed_group), Unwrap(series.filter_group))
            ELSE FALSE
    ELSE FALSE

\* Filter by Group: TRUE when the result is skipped
GroupRejects(series, title) ==
    IF IsSome(series.filter_group)
    THEN LET parsed_group == TitleGroup(title)
         IN IF IsSome(parsed_group)
            THEN ~Contains(Unwrap(parsed_group), Unwrap(series.filter_group))
            ELSE TRUE
    ELSE FALSE

\* Filter by Quality: TRUE when the result is skipped
QualityRejects(series, title) ==
    IF IsSome(series.filter_quality)
    THEN LET parsed_qual == TitleQuality(title)
         IN IF IsSome(parsed_qual)
            THEN Unwrap(parsed_qual) # to_lowercase(Unwrap(series.filter_quality))
            ELSE TRUE
    ELSE FALSE

BelowWatermark_inclusive(series, ep_num) == ep_num <= series.min_episode

\* if ep_num < series.min_episode { continue; }
BelowWatermark(series, ep_num) == ep_num < series.min_episode

\* the filters of the loop body: Some(ep_num) when no `continue` is taken
Candidate(show, torrents, series, title) ==
    LET ep == TitleEpisode(title)
    IN IF ~IsSome(ep) THEN None
       ELSE IF BelowWatermark(series, Unwrap(ep)) THEN None
       ELSE IF OwnedOrDownloading(show, torrents, title, Unwrap(ep)) THEN None
       ELSE IF GroupRejects(series, title) THEN None
       ELSE IF QualityRejects(series, title) THEN None
       ELSE ep

Score1080 == 10

Score720 == 5

\* the quality-derived score
QualityScore(title) ==
    LET q == TitleQuality(title)
    IN IF IsSome(q)
       THEN IF Unwrap(q) = <<"1","0","8","0","p">> THEN Score1080
            ELSE IF Unwrap(q) = <<"7","2","0","p">> THEN Score720
            ELSE 0
       ELSE 0

EmptyBest_zero == [score |-> 0, magnet |-> 0, title |-> <<>>]

\* (-1, String::new(), String::new())
EmptyBest == [score |-> -1, magnet |-> 0, title |-> <<>>]

Better_orEqual(score, current_best) == score >= current_best.score

\* whether the new candidate replaces the current best of its episode
Better(score, current_best) == score > current_best.score

\* best_candidates.entry(ep_num).or_insert(..); if score > current_best.0 {..}
Select(best, ep_num, score, result) ==
    LET current_best == IF ep_num \in DOMAIN best THEN best[ep_num] ELSE EmptyBest
        chosen == IF Better(score, current_best)
                  THEN [score |-> score, magnet |-> result.magnet_link,
                        title |-> result.title]
                  ELSE current_best
    IN [e \in (DOMAIN best) \cup {ep_num} |-> IF e = ep_num THEN chosen ELSE best[e]]

\* one iteration of `for result in results`
ProcessResult(show, torrents, series, best, result) ==
    LET c == Candidate(show, torrents, series, result.title)
    IN IF IsSome(c)
       THEN Select(best, Unwrap(c), QualityScore(result.title), result)
       ELSE best

RECURSIVE ScanResults(_, _, _, _, _)
\* the whole `for result in results` loop over the first n results
ScanResults(show, torrents, series, rs, n) ==
    IF n = 0 THEN << >>
    ELSE ProcessResult(show, torrents, series,
                       ScanResults(show, torrents, series, rs, n - 1), rs[n])

\* the record pushed for one entry of best_candidates
UpdateOf(series, best, ep_num) ==
    [series_title |-> series.title, episode_number |-> ep_num,
     magnet |-> best[ep_num].magnet, title |-> best[ep_num].title]

\* the orders in which a HashMap with these keys can be iterated
IterationOrders(keys) ==
    {o \in [1..Cardinality(keys) -> keys] :
        \A i, j \in 1..Cardinality(keys) : o[i] = o[j] => i = j}

\* `for (ep_num, (_, magnet, title)) in best_candidates { updates.push(..) }`
Collect(series, best, order) ==
    [i \in 1..Len(order) |-> UpdateOf(series, best, order[i])]

-----------------------------------------------------------------------------
(* The inputs of check_for_updates                                         *)

\* the most results the search service returns during one check_for_updates
MaxResults == 3

\* "[g] a - 07 [1080P]": the name of a torrent in flight
N_g_07_1080P == <<"[","g","]"," ","a"," ","-"," ","0","7"," ","[","1","0","8","0","P","]">>

TorrentChoices == { << >>, <<N_g_07_1080P>> }

ShowA_flat ==
    [id |-> "a", title |-> <<"A">>, episodes |-> <<6>>, seasons |-> << >>]

ShowA_seasonal ==
    [id |-> "a", title |-> <<"A">>, episodes |-> << >>,
     seasons |-> << [number |-> 1, episodes |-> <<6>>] >>]

ShowAB_flat ==
    [id |-> "b", title |-> <<"A"," ","B">>, episodes |-> <<7>>, seasons |-> << >>]

LibraryChoices ==
    { << >>, <<ShowA_seasonal>>, <<ShowAB_flat, ShowA_flat>> }

\* id and title of a tracked series with its watermark: found by id, found
\* by title only (a MAL import), matching no show
SeriesIdentities ==
    { [id |-> "a", title |-> <<"A">>, min_episode |-> 5],
      [id |-> "mal-1", title |-> <<"a">>, min_episode |-> 6],
      [id |-> "z", title |-> <<"Z">>, min_episode |-> 0] }

GroupFilters == { None, Some(<<"G">>) }

QualityFilters == { None, Some(<<"1","0","8","0","P">>) }

TrackedSeries(ident, group, quality) ==
    [id |-> ident.id, title |-> ident.title, query |-> ident.title,
     filter_group |-> group, filter_quality |-> quality,
     min_episode |-> ident.min_episode]

SeriesChoices ==
    {TrackedSeries(i, g, q) : i \in SeriesIdentities, g \in GroupFilters,
                              q \in QualityFilters}

\* the series that occur in lists of two: the unfiltered ones found by id
\* and found nowhere
PairedSeries ==
    {s \in SeriesChoices :
        s.filter_group = None /\ s.filter_quality = None /\ s.id # "mal-1"}

TrackedChoices ==
    {<<s>> : s \in SeriesChoices}
        \cup {<<p[1], p[2]>> : p \in {q \in PairedSeries \X PairedSeries : q[1] # q[2]}}

\* the result lists of at most n titles; the magnet link of a result is its
\* position in the list
ResultLists ==
    [n \in 0..MaxResults |->
        UNION {{[i \in 1..k |-> [title |-> ts[i], magnet_link |-> i]] :
                  ts \in [1..k -> ResultTitles]} : k \in 0..n}]

-----------------------------------------------------------------------------
(* check_for_updates as a state machine: one step per tracked series       *)

InitBatchIdle ==
    /\ root = << >>
    /\ reads = << >>
    /\ analysis = << >>
    /\ bpc = "idle"

PcAfter(idx, list) == IF idx > Len(list) THEN "done" ELSE "loop"

\* check_for_updates is entered: `let mut updates = Vec::new()`
InitTracking ==
    /\ library \in LibraryChoices
    /\ tracked \in TrackedChoices
    /\ existing_torrents \in TorrentChoices
    /\ series_idx = 1
    /\ outcome = "none"
    /\ results = << >>
    /\ best_candidates = << >>
    /\ updates = << >>
    /\ upd_base = 0
    /\ fetched = 0
    /\ searched = << >>
    /\ pc = PcAfter(1, tracked)
    /\ parsed = ParsedTitles

\* the Ok(results) arm for the series at series_idx
SearchOk(rs) ==
    /\ pc = "loop"
    /\ LET series == tracked[series_idx]
           show == existing_show(library, series)
           best == ScanResults(show, existing_torrents, series, rs, Len(rs))
       IN /\ results' = rs
          /\ best_candidates' = best
          /\ \E order \in IterationOrders(DOMAIN best) :
                /\ updates' = updates \o Collect(series, best, order)
                /\ searched' = Append(searched,
                                      [failed |-> FALSE,
                                       pushed |-> Collect(series, best, order)])
    /\ outcome' = "ok"
    /\ upd_base' = Len(updates)
    /\ fetched' = fetched + Len(rs)
    /\ series_idx' = series_idx + 1
    /\ pc' = PcAfter(series_idx + 1, tracked)
    /\ UNCHANGED <<library, tracked, existing_torrents, parsed>>

\* a mutation of SearchErr: the first failure ends the scan
SearchErr_aborts ==
    /\ pc = "loop"
    /\ outcome' = "err"
    /\ results' = << >>
    /\ best_candidates' = << >>
    /\ upd_base' = Len(updates)
    /\ searched' = Append(searched, [failed |-> TRUE, pushed |-> << >>])
    /\ series_idx' = series_idx + 1
    /\ pc' = "done"
    /\ UNCHANGED <<library, tracked, existing_torrents, updates, fetched, parsed>>

\* the Err(e) arm for the series at series_idx
SearchErr ==
    /\ pc = "loop"
    /\ searched' = Append(searched, [failed |-> TRUE, pushed |-> << >>])
    /\ outcome' = "err"
    /\ results' = << >>
    /\ best_candidates' = << >>
    /\ upd_base' = Len(updates)
    /\ series_idx' = series_idx + 1
    /\ pc' = PcAfter(series_idx + 1, tracked)
    /\ UNCHANGED <<library, tracked, existing_torrents, updates, fetched, parsed>>

\* no function is being applied to an argument
InitCategorizeIdle ==
    /\ dir_name = << >>
    /\ dir_category = << >>

InitParserIdle ==
    /\ file_name = << >>
    /\ file_episode = << >>
    /\ file_season = << >>

InitQueryIdle ==
    /\ user_query = << >>
    /\ parsed_query = << >>
    /\ search_query = << >>
    /\ overflow_checks = FALSE

InitRankIdle ==
    /\ candidates = << >>
    /\ title_scores = << >>
    /\ ranked = << >>

InitSearchIdle ==
    /\ query_idx = 0
    /\ all_results = << >>
    /\ seen_magnets = {}
    /\ issued = << >>
    /\ spc = "idle"

InitCallsIdle ==
    /\ InitCategorizeIdle
    /\ InitParserIdle
    /\ InitQueryIdle
    /\ InitRankIdle
    /\ InitSearchIdle
    /\ called = {}

Init == InitTracking /\ InitBatchIdle /\ InitCallsIdle

Next ==
    \/ \E rs \in ResultLists[MaxResults - fetched] : SearchOk(rs)
          /\ UNCHANGED <<batch_vars, call_vars>>
    \/ SearchErr /\ UNCHANGED <<batch_vars, call_vars>>

Spec == Init /\ [][Next]_vars

-----------------------------------------------------------------------------
(* The batch analyzer: analyze_batch applied to a download folder          *)

InitTrackingIdle ==
    /\ library = << >>
    /\ tracked = << >>
    /\ existing_torrents = << >>
    /\ series_idx = 1
    /\ outcome = "none"
    /\ results = << >>
    /\ best_candidates = << >>
    /\ updates = << >>
    /\ upd_base = 0
    /\ fetched = 0
    /\ searched = << >>
    /\ pc = "done"
    /\ parsed = ParsedTitles

InitBatch ==
    /\ root \in RootChoices
    /\ reads \in ReadChoices(root)
    /\ analysis = << >>
    /\ bpc = "idle"

RootPath == <<root.name>>

AnalyzeBatch ==
    /\ bpc = "idle"
    /\ analysis' = analyze_batch(RootPath, root, reads)
    /\ bpc' = "returned"
    /\ UNCHANGED <<root, reads>>

BatchInit == InitTrackingIdle /\ InitBatch /\ InitCallsIdle

BatchNext == AnalyzeBatch /\ UNCHANGED <<tracking_vars, call_vars>>

BatchSpec == BatchInit /\ [][BatchNext]_vars

-----------------------------------------------------------------------------
(* The folder categorizer: categorize_folder applied to a directory name   *)

\* how a season marker is written: the word, the number, what follows
SeasonWords ==
    { <<"S", "e", "a", "s", "o", "n">>, <<"s", "e", "a", "s", "o", "n">>, <<"P", "a", "r", "t">>, <<"C", "o", "u", "r">>, <<"S">>, <<"s">> }

Gaps == { << >>, <<" ">> }

\* the digits of a season marker with the number they denote
MarkerNumbers ==
    { [text |-> <<"0">>, value |-> 0], [text |-> <<"1">>, value |-> 1],
      [text |-> <<"0", "1">>, value |-> 1], [text |-> <<"1", "2">>, value |-> 12],
      [text |-> <<"9", "9">>, value |-> 99], [text |-> <<"1", "0", "0">>, value |-> 100] }

MarkerRests == { << >>, <<" ", "S", "p", "e", "c", "i", "a", "l", "s">>, <<"-", "x">>, <<"x">> }

\* the names that begin like a season marker
MarkerParts ==
    [word : SeasonWords, gap : Gaps, number : MarkerNumbers,
     rest : MarkerRests]

\* special-content words and other folder names, with the kind of the word
FolderWords ==
    { [text |-> <<"O", "V", "A">>, kind |-> "Ova"], [text |-> <<"o", "a", "v">>, kind |-> "Ova"],
      [text |-> <<"O", "A", "D">>, kind |-> "Ova"],
      [text |-> <<"S", "p", "e", "c", "i", "a", "l">>, kind |-> "Special"],
      [text |-> <<"M", "o", "v", "i", "e">>, kind |-> "Movie"],
      [text |-> <<"E", "x", "t", "r", "a">>, kind |-> "Extra"],
      [text |-> <<"N", "C", "O", "P">>, kind |-> "Extra"], [text |-> <<"n", "c", "e", "d">>, kind |-> "Extra"],
      [text |-> <<"B", "o", "n", "u", "s">>, kind |-> "Extra"],
      [text |-> <<"R", "a", "n", "d", "o", "m", " ", "F", "o", "l", "d", "e", "r">>, kind |-> "Unknown"],
      [text |-> <<"S", "u", "b">>, kind |-> "Unknown"],
      [text |-> <<"F", "o", "n", "t", "s">>, kind |-> "Unknown"] }

\* alone, in the plural, followed or preceded by something else
WordRests == { << >>, <<"s">>, <<" ", "2">>, <<"e", "s">> }

WordFronts == { << >>, <<"M", "y", " ">> }

WordParts == [front : WordFronts, word : FolderWords, rest : WordRests]

MarkerName(p) == p.word \o p.gap \o p.number.text \o p.rest

WordName(p) == p.front \o p.word.text \o p.rest

FolderNameChoices ==
    {MarkerName(p) : p \in MarkerParts} \cup {WordName(p) : p \in WordParts}

CategorizeInit ==
    /\ InitTrackingIdle
    /\ InitBatchIdle
    /\ InitParserIdle
    /\ InitQueryIdle
    /\ InitRankIdle
    /\ InitSearchIdle
    /\ dir_name \in FolderNameChoices
    /\ dir_category = << >>
    /\ called = {}

Categorize ==
    /\ "categorize_folder" \notin called
    /\ dir_category' = categorize_folder(dir_name)
    /\ called' = called \cup {"categorize_folder"}
    /\ UNCHANGED dir_name

CategorizeNext ==
    Categorize
        /\ UNCHANGED <<tracking_vars, batch_vars, parser_vars, query_vars,
                     rank_vars, search_vars>>

CategorizeSpec == CategorizeInit /\ [][CategorizeNext]_vars

-----------------------------------------------------------------------------
(* nyaa/smart_search.rs: the regex patterns                                *)

W_batch == <<"b", "a", "t", "c", "h">>

W_complete == <<"c", "o", "m", "p", "l", "e", "t", "e">>

W_full == <<"f", "u", "l", "l">>

W_all == <<"a", "l", "l">>

W_episode == <<"e", "p", "i", "s", "o", "d", "e">>

W_ep == <<"e", "p">>

W_e == <<"e">>

W_x == <<"x">>

\* r"(?i)\b(batch|complete|full|all\s*episodes?|1-\d+|\d+-\d+)\b" at i; the
\* alternative 1-\d+ is an instance of \d+-\d+
BatchIndicatorAt(s, i) ==
    /\ WordBoundary(s, i)
    /\ \/ \E w \in {W_batch, W_complete, W_full} :
             WordAt(s, i, w) /\ WordBoundary(s, i + Len(w))
       \/ /\ WordAt(s, i, W_all)
          /\ LET r == SkipSpaces(s, i + Len(W_all))
                 e == r + Len(W_episode)
             IN /\ WordAt(s, r, W_episode)
                /\ \/ WordBoundary(s, e)
                   \/ LowerChar(At(s, e)) = "s" /\ WordBoundary(s, e + 1)
       \/ LET k == DigitRun(s, i)
              m == DigitRun(s, i + k + 1)
          IN /\ k >= 1
             /\ At(s, i + k) = "-"
             /\ m >= 1
             /\ WordBoundary(s, i + k + 1 + m)

\* BATCH_INDICATORS.is_match(query)
BatchIndicatorMatch(s) == \E i \in 1..Len(s) : BatchIndicatorAt(s, i)

\* the length of (\d{1,3})\b at d, 0 if it does not match
EpisodeDigits(s, d) == GreedyDigits(s, d, 3, WordBoundary)

\* (?:w1|w2|..)(\d{1,3})\b at q, with \s* before the digits if gap: the
\* position of the digits, 0 if there is no match
EpisodeDigitsAt(s, q, words, gap) ==
    LET Digit(n) == IF gap THEN SkipSpaces(s, q + Len(words[n]))
                    ELSE q + Len(words[n])
        fits == {n \in 1..Len(words) :
                    WordAt(s, q, words[n]) /\ EpisodeDigits(s, Digit(n)) > 0}
    IN IF fits = {} THEN 0 ELSE Digit(MinOf(fits))

\* caps of a match at start: the season digits at p (k of them) and the
\* episode digits at d
TwoGroups(s, start, p, k, d) ==
    Some([start |-> start,
          groups |-> <<DigitsValue(s, p, k),
                       DigitsValue(s, d, EpisodeDigits(s, d))>>])

\* \s*E(\d{1,3})\b
Qe1Rest(s, q) == EpisodeDigitsAt(s, SkipSpaces(s, q), <<W_e>>, FALSE) > 0

\* r"(?i)\bS(\d{1,2})\s*E(\d{1,3})\b"
SeasonEpisode1At(s, i) ==
    IF WordBoundary(s, i) /\ LowerChar(At(s, i)) = "s"
    THEN LET k == GreedyDigits(s, i + 1, 2, Qe1Rest)
             d == EpisodeDigitsAt(s, SkipSpaces(s, i + 1 + k), <<W_e>>, FALSE)
         IN IF k = 0 THEN None ELSE TwoGroups(s, i, i + 1, k, d)
    ELSE None

\* \s+E(\d{1,3})\b
Qe2Rest(s, q) == SkipSpaces(s, q) > q /\ Qe1Rest(s, q)

\* r"(?i)\bS(\d{1,2})\s+E(\d{1,3})\b"
SeasonEpisode2At(s, i) ==
    IF WordBoundary(s, i) /\ LowerChar(At(s, i)) = "s"
    THEN LET k == GreedyDigits(s, i + 1, 2, Qe2Rest)
             d == EpisodeDigitsAt(s, SkipSpaces(s, i + 1 + k), <<W_e>>, FALSE)
         IN IF k = 0 THEN None ELSE TwoGroups(s, i, i + 1, k, d)
    ELSE None

\* x(\d{1,3})\b
Qe3Rest(s, q) == EpisodeDigitsAt(s, q, <<W_x>>, FALSE) > 0

\* r"(?i)\b(\d{1,2})x(\d{1,3})\b"
SeasonEpisode3At(s, i) ==
    IF WordBoundary(s, i)
    THEN LET k == GreedyDigits(s, i, 2, Qe3Rest)
             d == EpisodeDigitsAt(s, i + k, <<W_x>>, FALSE)
         IN IF k = 0 THEN None ELSE TwoGroups(s, i, i, k, d)
    ELSE None

\* \s*Episode\s*(\d{1,3})\b
Qe4Rest(s, q) ==
    EpisodeDigitsAt(s, SkipSpaces(s, q), <<W_episode>>, TRUE) > 0

\* r"(?i)\bSeason\s*(\d{1,2})\s*Episode\s*(\d{1,3})\b"
SeasonEpisode4At(s, i) ==
    IF WordBoundary(s, i) /\ WordAt(s, i, W_season)
    THEN LET p == SkipSpaces(s, i + Len(W_season))
             k == GreedyDigits(s, p, 2, Qe4Rest)
             d == EpisodeDigitsAt(s, SkipSpaces(s, p + k), <<W_episode>>, TRUE)
         IN IF k = 0 THEN None ELSE TwoGroups(s, i, p, k, d)
    ELSE None

\* \s*(?:Ep|Episode|E)\s*(\d{1,3})\b
Qe5Rest(s, q) ==
    EpisodeDigitsAt(s, SkipSpaces(s, q), <<W_ep, W_episode, W_e>>, TRUE) > 0

\* r"(?i)\bS(\d{1,2})\s*(?:Ep|Episode|E)\s*(\d{1,3})\b"
SeasonEpisode5At(s, i) ==
    IF WordBoundary(s, i) /\ LowerChar(At(s, i)) = "s"
    THEN LET k == GreedyDigits(s, i + 1, 2, Qe5Rest)
             d == EpisodeDigitsAt(s, SkipSpaces(s, i + 1 + k),
                                  <<W_ep, W_episode, W_e>>, TRUE)
         IN IF k = 0 THEN None ELSE TwoGroups(s, i, i + 1, k, d)
    ELSE None

\* r"(?i)\b(?:Ep|Episode)\s*(\d{1,3})\b", one group
SeasonEpisode6At(s, i) ==
    IF WordBoundary(s, i)
    THEN LET d == EpisodeDigitsAt(s, i, <<W_ep, W_episode>>, TRUE)
         IN IF d = 0 THEN None
            ELSE Some([start |-> i,
                       groups |-> <<DigitsValue(s, d, EpisodeDigits(s, d))>>])
    ELSE None

\* pattern.captures(query) of the n-th entry of SEASON_EPISODE_PATTERNS
SeasonEpisodeCapture(n, s) ==
    CASE n = 1 -> Leftmost(s, SeasonEpisode1At)
      [] n = 2 -> Leftmost(s, SeasonEpisode2At)
      [] n = 3 -> Leftmost(s, SeasonEpisode3At)
      [] n = 4 -> Leftmost(s, SeasonEpisode4At)
      [] n = 5 -> Leftmost(s, SeasonEpisode5At)
      [] n = 6 -> Leftmost(s, SeasonEpisode6At)

NumSeasonEpisodePatterns == 6

\* r"(?i)\bS(\d{1,2})\b"
SeasonOnly1At(s, i) ==
    IF WordBoundary(s, i) /\ LowerChar(At(s, i)) = "s"
    THEN LET k == GreedyDigits(s, i + 1, 2, WordBoundary)
         IN IF k = 0 THEN None
            ELSE Some([start |-> i, groups |-> <<DigitsValue(s, i + 1, k)>>])
    ELSE None

\* r"(?i)\bSeason\s*(\d{1,2})\b"
SeasonOnly2At(s, i) ==
    IF WordBoundary(s, i) /\ WordAt(s, i, W_season)
    THEN LET p == SkipSpaces(s, i + Len(W_season))
             k == GreedyDigits(s, p, 2, WordBoundary)
         IN IF k = 0 THEN None
            ELSE Some([start |-> i, groups |-> <<DigitsValue(s, p, k)>>])
    ELSE None

\* pattern.captures(query) of the n-th entry of SEASON_ONLY_PATTERNS
SeasonOnlyCapture(n, s) ==
    CASE n = 1 -> Leftmost(s, SeasonOnly1At)
      [] n = 2 -> Leftmost(s, SeasonOnly2At)

NumSeasonOnlyPatterns == 2

-----------------------------------------------------------------------------
(* nyaa/smart_search.rs: parse_query                                       *)

RECURSIVE trim_start(_)
trim_start(s) ==
    IF s # << >> /\ IsSpace(s[1]) THEN trim_start(Tail(s)) ELSE s

RECURSIVE trim_end(_)
trim_end(s) ==
    IF s # << >> /\ IsSpace(s[Len(s)])
    THEN trim_end(SubSeq(s, 1, Len(s) - 1))
    ELSE s

\* str::trim
trim(s) == trim_end(trim_start(s))

RECURSIVE trim_end_matches(_)
\* name.trim_end_matches(|c| c == '-' || c == ':' || c.is_whitespace())
trim_end_matches(s) ==
    IF s # << >> /\ (s[Len(s)] \in {"-", ":"} \/ IsSpace(s[Len(s)]))
    THEN trim_end_matches(SubSeq(s, 1, Len(s) - 1))
    ELSE s

RECURSIVE split_whitespace(_)
\* str::split_whitespace, the words in order
split_whitespace(s) ==
    LET t == trim_start(s)
        stops == {i \in 1..Len(t) : IsSpace(t[i])}
        n == IF stops = {} THEN Len(t) ELSE MinOf(stops) - 1
    IN IF t = << >> THEN << >>
       ELSE <<SubSeq(t, 1, n)>> \o split_whitespace(SubSeq(t, n + 1, Len(t)))

RECURSIVE join(_, _)
\* parts.join(sep)
join(parts, sep) ==
    IF parts = << >> THEN << >>
    ELSE IF Len(parts) = 1 THEN parts[1]
    ELSE parts[1] \o sep \o join(Tail(parts), sep)

normalize_show_name(name) ==
    join(split_whitespace(trim_end_matches(trim(name))), <<" ">>)

\* the first match of the for loop over the patterns, None if none matches
FirstCapture(captures) ==
    LET hits == {n \in DOMAIN captures : IsSome(captures[n])}
    IN IF hits = {} THEN None ELSE captures[MinOf(hits)]

\* the caps the loop over SEASON_EPISODE_PATTERNS stops at
SeasonEpisodeMatch(query) ==
    FirstCapture([n \in 1..NumSeasonEpisodePatterns |->
                     SeasonEpisodeCapture(n, query)])

\* the caps the loop over SEASON_ONLY_PATTERNS stops at
SeasonOnlyMatch(query) ==
    FirstCapture([n \in 1..NumSeasonOnlyPatterns |->
                     SeasonOnlyCapture(n, query)])

SeasonOfCaps_noImplied(groups) ==
    IF Len(groups) + 1 = 2 THEN None ELSE Some(groups[1])

\* the season of a match: Some(1) if caps.len() == 2 (caps counts group 0),
\* else group 1
SeasonOfCaps(groups) ==
    IF Len(groups) + 1 = 2 THEN Some(1) ELSE Some(groups[1])

\* the episode of a match: group 1 if caps.len() == 2, else group 2
EpisodeOfCaps(groups) ==
    IF Len(groups) + 1 = 2 THEN Some(groups[1]) ELSE Some(groups[2])

SeasonWithoutEpisode_never(season, episode) == FALSE

\* season.is_some() && episode.is_none()
SeasonWithoutEpisode(season, episode) == IsSome(season) /\ ~IsSome(episode)

\* season and episode behind the first loop
FirstSeason(both) ==
    IF IsSome(both) THEN SeasonOfCaps(Unwrap(both).groups) ELSE None

FirstEpisode(both) ==
    IF IsSome(both) THEN EpisodeOfCaps(Unwrap(both).groups) ELSE None

\* the fallback loop runs if episode.is_none()
FallbackTaken(both, only) == ~IsSome(FirstEpisode(both)) /\ IsSome(only)

\* season behind both loops
FinalSeason(both, only) ==
    IF FallbackTaken(both, only) THEN Some(Unwrap(only).groups[1])
    ELSE FirstSeason(both)

\* query[..match_start].trim() of the last match taken, else the query
ShowPart(query, both, only) ==
    IF FallbackTaken(both, only)
    THEN trim(SubSeq(query, 1, Unwrap(only).start - 1))
    ELSE IF IsSome(both)
    THEN trim(SubSeq(query, 1, Unwrap(both).start - 1))
    ELSE query

\* the ParsedQuery of the trimmed query, both and only being the matches of
\* the two loops
ParsedQueryOf(query, both, only) ==
    [show_name |-> normalize_show_name(ShowPart(query, both, only)),
     season |-> FinalSeason(both, only),
     episode |-> FirstEpisode(both),
     is_batch_request |->
         \/ BatchIndicatorMatch(query)
         \/ SeasonWithoutEpisode(FinalSeason(both, only), FirstEpisode(both)),
     raw_query |-> query]

ParseTrimmed(query) ==
    ParsedQueryOf(query, SeasonEpisodeMatch(query), SeasonOnlyMatch(query))

parse_query(input) == ParseTrimmed(trim(input))

-----------------------------------------------------------------------------
(* nyaa/smart_search.rs: build_search_query                                *)

RECURSIVE to_string(_)
\* u32::to_string
to_string(n) ==
    IF n < 10 THEN <<Digits[n + 1]>>
    ELSE to_string(n \div 10) \o <<Digits[(n % 10) + 1]>>

format_episode_plain(ep) == to_string(ep)

\* format!("{:02}", n)
Pad2(n) == IF n < 10 THEN <<"0">> \o to_string(n) ELSE to_string(n)

format_episode(ep) == IF ep < 10 THEN Pad2(ep) ELSE to_string(ep)

format_season(season) == IF season < 10 THEN Pad2(season) ELSE to_string(season)

\* ordinal(n): format!("{}{} Season", n, suffix)
ordinal(n) ==
    LET suffix == CASE n % 10 = 1 /\ n % 100 # 11 -> <<"s", "t">>
                    [] n % 10 = 2 /\ n % 100 # 12 -> <<"n", "d">>
                    [] n % 10 = 3 /\ n % 100 # 13 -> <<"r", "d">>
                    [] OTHER -> <<"t", "h">>
    IN to_string(n) \o suffix \o <<" ", "S", "e", "a", "s", "o", "n">>

generate_batch_queries(pq) ==
    LET show == pq.show_name
    IN IF pq.season = Some(1)
       THEN <<show \o <<" ", "b", "a", "t", "c", "h">>,
              show \o <<" ", "c", "o", "m", "p", "l", "e", "t", "e">>,
              show \o <<" ", "1", "0", "8", "0", "p", " ", "b", "a", "t", "c", "h">>,
              show \o <<" ", "S", "e", "a", "s", "o", "n", " ", "1">>,
              show \o <<" ", "S", "0", "1">>>>
       ELSE IF IsSome(pq.season)
       THEN LET s == Unwrap(pq.season)
                s_fmt == format_season(s)
            IN <<show \o <<" ", "S">> \o s_fmt \o <<" ", "b", "a", "t", "c", "h">>,
                 show \o <<" ", "S", "e", "a", "s", "o", "n", " ">> \o to_string(s) \o <<" ", "b", "a", "t", "c", "h">>,
                 show \o <<" ", "S">> \o s_fmt,
                 show \o <<" ", "S", "e", "a", "s", "o", "n", " ">> \o to_string(s),
                 show \o <<" ">> \o to_string(s) \o <<"n", "d", " ", "S", "e", "a", "s", "o", "n">>>>
       ELSE <<show \o <<" ", "b", "a", "t", "c", "h">>,
              show \o <<" ", "c", "o", "m", "p", "l", "e", "t", "e">>,
              show>>

\* the panic of an arithmetic overflow in a build with overflow checks
Panic == [panic |-> "attempt to subtract with overflow"]

\* build_search_query panicked and returned nothing
Panicked(r) == "panic" \in DOMAIN r

\* format_episode((s - 1) * 12 + episode) in u32; for s = 0 the subtraction
\* wraps where overflow checks are off: (2^32 - 12 + episode) mod 2^32
AbsoluteEstimate(s, episode) ==
    IF s >= 1 THEN format_episode((s - 1) * 12 + episode)
    ELSE IF episode >= 12 THEN format_episode(episode - 12)
    ELSE <<"4", "2", "9", "4", "9", "6", "7", "2">> \o to_string(84 + episode)

\* s - 1 underflows in generate_episode_queries: the Some(s) arm with s = 0
EstimateOverflows(pq) ==
    /\ ~pq.is_batch_request
    /\ IsSome(pq.episode)
    /\ IsSome(pq.season)
    /\ Unwrap(pq.season) < 1

generate_episode_queries(pq, episode) ==
    LET show == pq.show_name
        ep == format_episode(episode)
    IN IF pq.season = Some(1) \/ pq.season = None
       THEN <<show \o <<" ">> \o ep,
              show \o <<" ", "-", " ">> \o ep,
              show \o <<" ", "E">> \o ep,
              show \o <<" ", "E", "p", "i", "s", "o", "d", "e", " ">> \o ep,
              show \o <<" ">> \o ep \o <<" ", "1", "0", "8", "0", "p">>>>
            \o (IF episode >= 10
                THEN <<show \o <<" ">> \o to_string(episode)>>
                ELSE << >>)
       ELSE LET s == Unwrap(pq.season)
                s_fmt == format_season(s)
            IN <<show \o <<" ", "S">> \o s_fmt \o <<" ", "-", " ">> \o ep,
                 show \o <<" ", "S">> \o s_fmt \o <<" ">> \o ep,
                 show \o <<" ", "S", "e", "a", "s", "o", "n", " ">>
                      \o to_string(s) \o <<" ", "-", " ">> \o ep,
                 show \o <<" ">> \o ordinal(s) \o <<" ">> \o ep,
                 show \o <<" ", "P", "a", "r", "t", " ">> \o to_string(s)
                      \o <<" ">> \o ep,
                 show \o <<" ">> \o AbsoluteEstimate(s, episode)>>

generate_show_queries(pq) ==
    LET show == pq.show_name
    IN <<show,
         show \o <<" ", "1", "0", "8", "0", "p">>,
         show \o <<" ", "c", "o", "m", "p", "l", "e", "t", "e">>>>

\* the branch of build_search_query on the parsed query
QueriesFor(pq) ==
    IF pq.is_batch_request THEN generate_batch_queries(pq)
    ELSE IF IsSome(pq.episode)
    THEN generate_episode_queries(pq, Unwrap(pq.episode))
    ELSE generate_show_queries(pq)

\* the SearchQuery built from the generated queries
SearchQueryOf(pq, queries) ==
    [primary |-> IF queries = << >> THEN pq.raw_query ELSE Head(queries),
     alternatives |-> IF queries = << >> THEN << >> ELSE Tail(queries),
     parsed |-> pq]

\* build_search_query behind `let parsed = parse_query(input)`; checks: the
\* build's overflow-checks setting
BuildFrom(pq, checks) ==
    IF pq.show_name = << >>
    THEN [primary |-> pq.raw_query, alternatives |-> << >>, parsed |-> pq]
    ELSE IF checks /\ EstimateOverflows(pq) THEN Panic
    ELSE SearchQueryOf(pq, QueriesFor(pq))

build_search_query(input, checks) == BuildFrom(parse_query(input), checks)

-----------------------------------------------------------------------------
(* parse_episode_number and parse_season_number on one file name            *)

\* "{base} - {NN}v{k}{tail}"
VersionBases ==
    {<<"S", "h", "o", "w">>,
     <<"[", "G", "]", " ", "S", "h", "o", "w", " ", "N", "a", "m", "e">>}

VersionEpisodes ==
    {[text |-> <<"0", "5">>, value |-> 5],
     [text |-> <<"1", "2">>, value |-> 12],
     [text |-> <<"1">>, value |-> 1]}

VersionNumbers ==
    {<<"2">>,
     <<"0">>,
     <<"1", "2">>,
     <<"1", "0">>}

\* an extension, a bracket or the end of the string
VersionTails ==
    {<<".", "m", "k", "v">>,
     <<" ", "[", "1", "0", "8", "0", "p", "]", ".", "m", "k", "v">>,
     << >>,
     <<"[", "x", "]">>}

VersionParts ==
    [base : VersionBases, episode : VersionEpisodes, version : VersionNumbers,
     tail : VersionTails]

VersionName(p) ==
    p.base \o <<" ", "-", " ">> \o p.episode.text \o <<"v">> \o p.version
           \o p.tail

\* "{front}S{xx}E{yy}{back}"
TokenFronts ==
    {<<"S", "h", "o", "w", ".">>,
     <<"S", "h", "o", "w", " ">>,
     <<"S", "h", "o", "w", "_">>,
     <<"S", "h", "o", "w", " ", "-", " ", "0", "3", " ">>,
     << >>}

TokenLetters ==
    {[s |-> "S", e |-> "E"], [s |-> "s", e |-> "e"]}

TokenSeasons ==
    {[text |-> <<"0", "1">>, value |-> 1],
     [text |-> <<"2">>, value |-> 2],
     [text |-> <<"1", "2">>, value |-> 12]}

TokenEpisodes ==
    {[text |-> <<"0", "2">>, value |-> 2],
     [text |-> <<"1", "5">>, value |-> 15],
     [text |-> <<"1", "0", "0">>, value |-> 100]}

TokenBacks ==
    {<<".", "m", "k", "v">>,
     <<" ", "-", " ", "0", "3", ".", "m", "k", "v">>,
     << >>,
     <<" ", "[", "1", "0", "8", "0", "p", "]", ".", "m", "k", "v">>}

TokenParts ==
    [front : TokenFronts, letters : TokenLetters, season : TokenSeasons,
     episode : TokenEpisodes, back : TokenBacks]

TokenName(p) ==
    p.front \o <<p.letters.s>> \o p.season.text \o <<p.letters.e>>
            \o p.episode.text \o p.back

\* the longest run of markers in one name
MaxTokens == 2

RECURSIVE Joined(_, _)
\* the concatenations of at most n of the tokens
Joined(tokens, n) ==
    IF n = 0 THEN {<< >>}
    ELSE LET shorter == Joined(tokens, n - 1)
         IN shorter \cup {t \o j : t \in tokens, j \in shorter}

\* a leading bare number, in range and out of range
CascadeLeads ==
    {<< >>,
     <<"0", "7", " ", "-", " ">>,
     <<"0", "0", "0", " ", "-", " ">>}

\* one marker for each episode pattern, in range and out of range
EpisodeTokens ==
    {<<" ", "-", " ", "0", "3">>,
     <<" ", "-", " ", "1", "0", "8", "0">>,
     <<" ", "S", "0", "1", "E", "0", "2">>,
     <<" ", "S", "0", "1", "E", "0", "0", "0">>,
     <<" ", "E", "p", " ", "0", "6">>,
     <<" ", "E", "0", "8">>}

\* a separator-delimited bare number before the extension
CascadeTails ==
    {<<".", "m", "k", "v">>,
     <<" ", "0", "4", ".", "m", "k", "v">>,
     <<" ", "0", "0", "0", ".", "m", "k", "v">>,
     <<".", "m", "k", "v", ".", "z", "s", "t">>}

CascadeNames ==
    {lead \o <<"S", "h", "o", "w">> \o middle \o tail :
        lead \in CascadeLeads,
        middle \in Joined(EpisodeTokens, MaxTokens),
        tail \in CascadeTails}

\* one marker for each season pattern, in range and out of range
SeasonTokens ==
    {<<" ", "S", "2">>,
     <<" ", "S", "0", "0">>,
     <<" ", "S", "0", "0", "E", "0", "1">>,
     <<" ", "S", "e", "a", "s", "o", "n", " ", "3">>,
     <<" ", "4", "t", "h", " ", "S", "e", "a", "s", "o", "n">>,
     <<" ", "P", "a", "r", "t", " ", "5">>,
     <<" ", "C", "o", "u", "r", " ", "6">>,
     <<" ", "7", "t", "h", " ", "C", "o", "u", "r">>,
     <<" ", "V", "I", "I", "I">>,
     <<" ", "9", "<ki>">>,
     <<" ", "T", "e", "n", "t", "h", " ", "S", "e", "a", "s", "o", "n">>,
     <<"_", "S", "3">>}

SeasonNames ==
    {<<"S", "h", "o", "w">> \o middle \o <<".", "m", "k", "v">> :
        middle \in Joined(SeasonTokens, MaxTokens)}

\* names with markers of both kinds
MixedNames ==
    {<<"S", "h", "o", "w", " ", "S", "0", "0", "E", "0", "0", "0", " ", "S", "e", "a", "s", "o", "n", " ", "3", " ", "E", "p", " ", "0", "6", ".", "m", "k", "v">>,
     <<"S", "h", "o", "w", " ", "S", "0", "0", " ", "-", " ", "1", "0", "8", "0", " ", "I", "I", " ", "-", " ", "0", "5", ".", "m", "k", "v">>,
     <<"S", "h", "o", "w", " ", "2", "n", "d", " ", "S", "e", "a", "s", "o", "n", " ", "-", " ", "1", "2", " ", "[", "1", "0", "8", "0", "p", "]", ".", "m", "k", "v">>,
     <<"S", "h", "o", "w", " ", "1", "0", "8", "0", "p", ".", "m", "k", "v">>}

FileNameChoices ==
    {VersionName(p) : p \in VersionParts}
        \cup {TokenName(p) : p \in TokenParts}
        \cup CascadeNames \cup SeasonNames \cup MixedNames

ParserInit ==
    /\ InitTrackingIdle
    /\ InitBatchIdle
    /\ InitCategorizeIdle
    /\ InitQueryIdle
    /\ InitRankIdle
    /\ InitSearchIdle
    /\ file_name \in FileNameChoices
    /\ file_episode = << >>
    /\ file_season = << >>
    /\ called = {}

\* one call of parse_episode_number(file_name)
ParseEpisode ==
    /\ "parse_episode_number" \notin called
    /\ file_episode' = parse_episode_number(file_name)
    /\ called' = called \cup {"parse_episode_number"}
    /\ UNCHANGED <<file_name, file_season>>

\* one call of parse_season_number(file_name)
ParseSeason ==
    /\ "parse_season_number" \notin called
    /\ file_season' = parse_season_number(file_name)
    /\ called' = called \cup {"parse_season_number"}
    /\ UNCHANGED <<file_name, file_episode>>

ParserNext ==
    \/ ParseEpisode
          /\ UNCHANGED <<tracking_vars, batch_vars, categorize_vars, query_vars,
                       rank_vars, search_vars>>
    \/ ParseSeason
          /\ UNCHANGED <<tracking_vars, batch_vars, categorize_vars, query_vars,
                       rank_vars, search_vars>>

ParserSpec == ParserInit /\ [][ParserNext]_vars

-----------------------------------------------------------------------------
(* parse_query and build_search_query on one query                         *)

\* show names as typed, with the name parse_query is to give and whether
\* the name holds a batch word
QueryShows ==
    {[text |-> <<"F", "r", "i", "e", "r", "e", "n">>, name |-> <<"F", "r", "i", "e", "r", "e", "n">>, indicator |-> FALSE],
     [text |-> <<"O", "n", "e", " ", "P", "i", "e", "c", "e">>, name |-> <<"O", "n", "e", " ", "P", "i", "e", "c", "e">>, indicator |-> FALSE],
     [text |-> <<"F", "u", "l", "l", " ", "M", "e", "t", "a", "l">>, name |-> <<"F", "u", "l", "l", " ", "M", "e", "t", "a", "l">>, indicator |-> TRUE],
     [text |-> <<"F", "u", "l", "l", "m", "e", "t", "a", "l">>, name |-> <<"F", "u", "l", "l", "m", "e", "t", "a", "l">>, indicator |-> FALSE],
     [text |-> <<"S", "h", "o", "w", " ", "-">>, name |-> <<"S", "h", "o", "w">>, indicator |-> FALSE],
     [text |-> << >>, name |-> << >>, indicator |-> FALSE],
     [text |-> <<"K", "a", "g", "u", "y", "a", "-", "s", "a", "m", "a", ":", " ", "L", "o", "v", "e">>, name |-> <<"K", "a", "g", "u", "y", "a", "-", "s", "a", "m", "a", ":", " ", "L", "o", "v", "e">>, indicator |-> FALSE]}

\* season and episode markers, with the numbers they state and the episode
\* as two digits
QueryMarkers ==
    {[text |-> << >>, season |-> << >>, episode |-> << >>,
      padded |-> << >>, kind |-> "none"],
     [text |-> <<"S", "0", "1", "E", "0", "9">>, season |-> <<1>>, episode |-> <<9>>,
      padded |-> <<"0", "9">>, kind |-> "both"],
     [text |-> <<"s", "1", "e", "5">>, season |-> <<1>>, episode |-> <<5>>,
      padded |-> <<"0", "5">>, kind |-> "both"],
     [text |-> <<"S", "0", "1", " ", "E", "0", "9">>, season |-> <<1>>, episode |-> <<9>>,
      padded |-> <<"0", "9">>, kind |-> "both"],
     [text |-> <<"2", "x", "0", "5">>, season |-> <<2>>, episode |-> <<5>>,
      padded |-> <<"0", "5">>, kind |-> "both"],
     [text |-> <<"S", "e", "a", "s", "o", "n", " ", "1", " ", "E", "p", "i", "s", "o", "d", "e", " ", "9">>, season |-> <<1>>, episode |-> <<9>>,
      padded |-> <<"0", "9">>, kind |-> "both"],
     [text |-> <<"S", "0", "2", " ", "E", "p", " ", "5">>, season |-> <<2>>, episode |-> <<5>>,
      padded |-> <<"0", "5">>, kind |-> "both"],
     [text |-> <<"S", "0", "2", "E", "1", "5">>, season |-> <<2>>, episode |-> <<15>>,
      padded |-> <<"1", "5">>, kind |-> "both"],
     [text |-> <<"S", "0", "1", "E", "1", "0", "0">>, season |-> <<1>>, episode |-> <<100>>,
      padded |-> <<"1", "0", "0">>, kind |-> "both"],
     [text |-> <<"S", "0", "0", "E", "0", "5">>, season |-> <<0>>, episode |-> <<5>>,
      padded |-> <<"0", "5">>, kind |-> "both"],
     [text |-> <<"E", "p", " ", "5">>, season |-> << >>, episode |-> <<5>>,
      padded |-> <<"0", "5">>, kind |-> "episode"],
     [text |-> <<"E", "p", "i", "s", "o", "d", "e", " ", "1", "2">>, season |-> << >>, episode |-> <<12>>,
      padded |-> <<"1", "2">>, kind |-> "episode"],
     [text |-> <<"S", "0", "2">>, season |-> <<2>>, episode |-> << >>,
      padded |-> << >>, kind |-> "season"],
     [text |-> <<"S", "e", "a", "s", "o", "n", " ", "1">>, season |-> <<1>>, episode |-> << >>,
      padded |-> << >>, kind |-> "season"],
     [text |-> <<"S", "0", "3">>, season |-> <<3>>, episode |-> << >>,
      padded |-> << >>, kind |-> "season"],
     [text |-> <<"S", "e", "a", "s", "o", "n", " ", "1", "1">>, season |-> <<11>>, episode |-> << >>,
      padded |-> << >>, kind |-> "season"]}

\* trailing words, batch indicators or not
QueryIndicators ==
    {[text |-> << >>, indicator |-> FALSE],
     [text |-> <<"b", "a", "t", "c", "h">>, indicator |-> TRUE],
     [text |-> <<"C", "o", "m", "p", "l", "e", "t", "e">>, indicator |-> TRUE],
     [text |-> <<"f", "u", "l", "l">>, indicator |-> TRUE],
     [text |-> <<"a", "l", "l", " ", "e", "p", "i", "s", "o", "d", "e", "s">>, indicator |-> TRUE],
     [text |-> <<"1", "-", "1", "2">>, indicator |-> TRUE],
     [text |-> <<"0", "1", "-", "2", "4">>, indicator |-> TRUE],
     [text |-> <<"b", "a", "t", "c", "h", "e", "s">>, indicator |-> FALSE],
     [text |-> <<"1", "0", "8", "0", "p">>, indicator |-> FALSE]}

\* white space around the query
QueryPads == {<< >>, <<" ">>}

QueryParts ==
    [show : QueryShows, marker : QueryMarkers, indicator : QueryIndicators,
     pad : QueryPads]

\* the non-empty ones of the strings, in order
NonEmpty(strings) == SelectSeq(strings, LAMBDA t : t # << >>)

QueryText(p) ==
    p.pad \o join(NonEmpty(<<p.show.text, p.marker.text, p.indicator.text>>),
                  <<" ">>) \o p.pad

QueryChoices == {QueryText(p) : p \in QueryParts}

QueryInit ==
    /\ InitTrackingIdle
    /\ InitBatchIdle
    /\ InitCategorizeIdle
    /\ InitParserIdle
    /\ InitRankIdle
    /\ InitSearchIdle
    /\ user_query \in QueryChoices
    /\ parsed_query = << >>
    /\ search_query = << >>
    /\ overflow_checks \in BOOLEAN
    /\ called = {}

\* one call of parse_query(user_query)
ParseQuery ==
    /\ "parse_query" \notin called
    /\ parsed_query' = parse_query(user_query)
    /\ called' = called \cup {"parse_query"}
    /\ UNCHANGED <<user_query, search_query, overflow_checks>>

\* one call of build_search_query(user_query)
BuildSearchQuery ==
    /\ "build_search_query" \notin called
    /\ search_query' = build_search_query(user_query, overflow_checks)
    /\ called' = called \cup {"build_search_query"}
    /\ UNCHANGED <<user_query, parsed_query, overflow_checks>>

QueryNext ==
    \/ ParseQuery
          /\ UNCHANGED <<tracking_vars, batch_vars, categorize_vars, parser_vars,
                       rank_vars, search_vars>>
    \/ BuildSearchQuery
          /\ UNCHANGED <<tracking_vars, batch_vars, categorize_vars, parser_vars,
                       rank_vars, search_vars>>

QuerySpec == QueryInit /\ [][QueryNext]_vars

-----------------------------------------------------------------------------
(* nyaa/smart_search.rs: score_result and rank_results                     *)

ShowMatchScore == 100

WordMatchScore == 20

EpisodeMatchScore == 50

SeasonMatchScore == 30

PreferredResolutionScore == 10

GoodSubgroupScore == 15

BatchPenaltyScore == 50

LowQualityPenaltyScore == 20

\* the whole show name in the title, or else 20 for each word of it
ShowScore(title_lower, show_lower) ==
    IF Contains(title_lower, show_lower) THEN ShowMatchScore
    ELSE WordMatchScore *
             Cardinality({i \in DOMAIN split_whitespace(show_lower) :
                 Contains(title_lower, split_whitespace(show_lower)[i])})

\* the array ep_patterns; format!("{}", ep) is to_string(ep)
EpisodePatterns(ep_padded, ep) ==
    {<<" ">> \o ep_padded \o <<" ">>,
     <<" ">> \o ep_padded,
     <<"-", " ">> \o ep_padded,
     <<"-">> \o ep_padded,
     <<"E">> \o ep_padded,
     <<"e">> \o ep_padded,
     <<" ">> \o ep \o <<" ">>,
     <<"E">> \o ep \o <<" ">>}

EpisodeScore(title_lower, pq) ==
    IF /\ IsSome(pq.episode)
       /\ \E p \in EpisodePatterns(format_episode(Unwrap(pq.episode)),
                                   to_string(Unwrap(pq.episode))) :
             Contains(title_lower, p)
    THEN EpisodeMatchScore
    ELSE 0

\* the array season_patterns
SeasonPatterns(s_padded, s) ==
    {<<"s">> \o s_padded,
     <<"s">> \o s,
     <<"s", "e", "a", "s", "o", "n", " ">> \o s,
     s \o <<"n", "d", " ", "s", "e", "a", "s", "o", "n">>,
     s \o <<"r", "d", " ", "s", "e", "a", "s", "o", "n">>,
     s \o <<"t", "h", " ", "s", "e", "a", "s", "o", "n">>,
     <<"p", "a", "r", "t", " ">> \o s}

SeasonScore(title_lower, pq) ==
    IF /\ IsSome(pq.season)
       /\ Unwrap(pq.season) > 1
       /\ \E p \in SeasonPatterns(format_season(Unwrap(pq.season)),
                                  to_string(Unwrap(pq.season))) :
             Contains(title_lower, to_lowercase(p))
    THEN SeasonMatchScore
    ELSE 0

ResolutionScore(title_lower) ==
    IF Contains(title_lower, <<"1", "0", "8", "0", "p">>)
    THEN PreferredResolutionScore
    ELSE 0

good_subgroups ==
    {<<"s", "u", "b", "s", "p", "l", "e", "a", "s", "e">>,
     <<"e", "r", "a", "i", "-", "r", "a", "w", "s">>,
     <<"j", "u", "d", "a", "s">>,
     <<"h", "o", "r", "r", "i", "b", "l", "e", "s", "u", "b", "s">>}

SubgroupScore(title_lower) ==
    IF \E g \in good_subgroups : Contains(title_lower, g)
    THEN GoodSubgroupScore
    ELSE 0

batch_indicators ==
    {<<"b", "a", "t", "c", "h">>, <<"c", "o", "m", "p", "l", "e", "t", "e">>, <<"1", "-">>, <<"0", "1", "-">>}

\* a mutation of BatchPenalty: batch requests are penalised as well
BatchPenalty_anyRequest(title_lower, pq) ==
    IF /\ IsSome(pq.episode)
       /\ \E b \in batch_indicators : Contains(title_lower, b)
    THEN BatchPenaltyScore
    ELSE 0

\* what `score -= 50` takes off for a batch title
BatchPenalty(title_lower, pq) ==
    IF /\ IsSome(pq.episode)
       /\ ~pq.is_batch_request
       /\ \E b \in batch_indicators : Contains(title_lower, b)
    THEN BatchPenaltyScore
    ELSE 0

LowQualityPenalty(title_lower) ==
    IF \/ Contains(title_lower, <<"4", "8", "0", "p">>)
       \/ Contains(title_lower, <<"3", "6", "0", "p">>)
    THEN LowQualityPenaltyScore
    ELSE 0

\* score_result on the lower-cased title; every term is far from the i32
\* limits
ScoreOf(title_lower, pq) ==
    ShowScore(title_lower, to_lowercase(pq.show_name))
        + EpisodeScore(title_lower, pq)
        + SeasonScore(title_lower, pq)
        + ResolutionScore(title_lower)
        + SubgroupScore(title_lower)
        - BatchPenalty(title_lower, pq)
        - LowQualityPenalty(title_lower)

score_result(result_title, pq) == ScoreOf(to_lowercase(result_title), pq)

\* a mutation of CompareScores: ascending order
CompareScores_ascending(score_a, score_b) ==
    IF score_a < score_b THEN "Less"
    ELSE IF score_a = score_b THEN "Equal"
    ELSE "Greater"

\* the closure of sort_by: score_b.cmp(&score_a)
CompareScores(score_a, score_b) ==
    IF score_b < score_a THEN "Less"
    ELSE IF score_b = score_a THEN "Equal"
    ELSE "Greater"

\* score_result is pure: the scores the closure computes are those of the
\* titles in the slice
ScoreTable(rs, pq) ==
    {<<t, score_result(t, pq)>> : t \in {rs[i].title : i \in DOMAIN rs}}

ScoreIn(table, title) == (CHOOSE p \in table : p[1] = title)[2]

\* slice::sort_by is a stable sort: rs[i] goes behind the elements that
\* compare Less than it and behind the earlier ones that compare Equal
PlaceOf(rs, table, i) ==
    1 + Cardinality({j \in DOMAIN rs :
                        CompareScores(ScoreIn(table, rs[j].title),
                                      ScoreIn(table, rs[i].title)) = "Less"})
      + Cardinality({j \in 1..(i - 1) :
                        CompareScores(ScoreIn(table, rs[j].title),
                                      ScoreIn(table, rs[i].title)) = "Equal"})

Places(rs, table) == {<<PlaceOf(rs, table, i), i>> : i \in DOMAIN rs}

Sorted(rs, places) ==
    [k \in DOMAIN rs |-> rs[(CHOOSE p \in places : p[1] = k)[2]]]

\* the sort under the scores of the titles, each computed once
rank_results(rs, pq) ==
    CHOOSE r \in {Sorted(rs, places) :
                     places \in {Places(rs, table) :
                                    table \in {ScoreTable(rs, pq)}}} : TRUE

-----------------------------------------------------------------------------
(* score_result and rank_results applied to a list of results              *)

\* "[SubsPlease] Frieren - 09 [1080p].mkv"
T_Episode ==
    <<"[", "S", "u", "b", "s", "P", "l", "e", "a", "s", "e", "]", " ",
        "F", "r", "i", "e", "r", "e", "n", " ", "-", " ", "0", "9",
        " ", "[", "1", "0", "8", "0", "p", "]", ".", "m", "k", "v">>

\* "[SubsPlease] Frieren - Batch (01-12) [1080p].mkv"
T_Batch ==
    <<"[", "S", "u", "b", "s", "P", "l", "e", "a", "s", "e", "]", " ",
        "F", "r", "i", "e", "r", "e", "n", " ", "-", " ", "B", "a",
        "t", "c", "h", " ", "(", "0", "1", "-", "1", "2", ")", " ",
        "[", "1", "0", "8", "0", "p", "]", ".", "m", "k", "v">>

\* "Frieren Complete [480p]"
T_Complete ==
    <<"F", "r", "i", "e", "r", "e", "n", " ", "C", "o", "m", "p", "l",
        "e", "t", "e", " ", "[", "4", "8", "0", "p", "]">>

\* "[Judas] Frieren S2 - 05 (1-12)"
T_SeasonTwo ==
    <<"[", "J", "u", "d", "a", "s", "]", " ", "F", "r", "i", "e", "r",
        "e", "n", " ", "S", "2", " ", "-", " ", "0", "5", " ", "(",
        "1", "-", "1", "2", ")">>

\* "Frieren - 09 [720p]"
T_Plain ==
    <<"F", "r", "i", "e", "r", "e", "n", " ", "-", " ", "0", "9", " ",
        "[", "7", "2", "0", "p", "]">>

\* "One Piece - 09"
T_Other ==
    <<"O", "n", "e", " ", "P", "i", "e", "c", "e", " ", "-", " ", "0",
        "9">>

RankTitles == {T_Episode,
               T_Batch,
               T_Complete,
               T_SeasonTwo,
               T_Plain,
               T_Other}

\* "Frieren S02E05"
Q_Frieren_S02E05 ==
    <<"F", "r", "i", "e", "r", "e", "n", " ", "S", "0", "2", "E", "0",
        "5">>

\* "Frieren S02"
Q_Frieren_S02 ==
    <<"F", "r", "i", "e", "r", "e", "n", " ", "S", "0", "2">>

\* "Frieren"
Q_Frieren ==
    <<"F", "r", "i", "e", "r", "e", "n">>

\* "Frieren S01E09 batch"
Q_Frieren_S01E09_batch ==
    <<"F", "r", "i", "e", "r", "e", "n", " ", "S", "0", "1", "E", "0",
        "9", " ", "b", "a", "t", "c", "h">>

\* "Frieren S00E05"
Q_Frieren_S00E05 ==
    <<"F", "r", "i", "e", "r", "e", "n", " ", "S", "0", "0", "E", "0",
        "5">>

\* "Frieren S01E09"
RankQuery_S01E09 ==
    <<"F", "r", "i", "e", "r", "e", "n", " ", "S", "0", "1", "E", "0", "9">>

RankQueries == {RankQuery_S01E09, Q_Frieren_S02E05, Q_Frieren_S02, Q_Frieren,
                Q_Frieren_S01E09_batch}

MaxCandidates == 2

\* a NyaaResult, by the two fields NyaaClient::search reads; a magnet link
\* is represented by a number
NyaaResult(title, magnet_link) ==
    [title |-> title, magnet_link |-> magnet_link]

\* the lists of at most n results over the titles, told apart by their
\* magnet links
CandidateLists(n) ==
    UNION {{[i \in 1..k |-> NyaaResult(ts[i], i)] :
               ts \in [1..k -> RankTitles]} : k \in 0..n}

RankInit ==
    /\ InitTrackingIdle
    /\ InitBatchIdle
    /\ InitCategorizeIdle
    /\ InitParserIdle
    /\ InitSearchIdle
    /\ user_query \in RankQueries
    /\ parsed_query = parse_query(user_query)
    /\ search_query = << >>
    /\ overflow_checks = FALSE
    /\ candidates \in CandidateLists(MaxCandidates)
    /\ title_scores = << >>
    /\ ranked = << >>
    /\ called = {}

\* score_result(&r.title, &parsed) on every candidate
ScoreResult ==
    /\ "score_result" \notin called
    /\ title_scores' = [i \in DOMAIN candidates |->
                           score_result(candidates[i].title, parsed_query)]
    /\ called' = called \cup {"score_result"}
    /\ UNCHANGED <<candidates, ranked>>

\* rank_results(&mut candidates, &parsed, |r| &r.title)
RankResults ==
    /\ "rank_results" \notin called
    /\ ranked' = rank_results(candidates, parsed_query)
    /\ called' = called \cup {"rank_results"}
    /\ UNCHANGED <<candidates, title_scores>>

RankNext ==
    \/ ScoreResult
          /\ UNCHANGED <<tracking_vars, batch_vars, categorize_vars, parser_vars,
                         query_vars, search_vars>>
    \/ RankResults
          /\ UNCHANGED <<tracking_vars, batch_vars, categorize_vars, parser_vars,
                         query_vars, search_vars>>

RankSpec == RankInit /\ [][RankNext]_vars

-----------------------------------------------------------------------------
(* nyaa/mod.rs: NyaaClient::search                                         *)

EnoughResults == 15

PlentyResults == 30

\* a mutation of IsNewMagnet: every result is taken
IsNewMagnet_always(seen, magnet_link) == TRUE

\* seen_magnets.insert(..) returns true
IsNewMagnet(seen, magnet_link) == magnet_link \notin seen

\* `for result in results`: the results pushed to all_results
RECURSIVE NewResults(_, _)
NewResults(rs, seen) ==
    IF rs = << >> THEN << >>
    ELSE IF IsNewMagnet(seen, Head(rs).magnet_link)
    THEN <<Head(rs)>> \o NewResults(Tail(rs), seen \cup {Head(rs).magnet_link})
    ELSE NewResults(Tail(rs), seen)

\* a mutation of StopSearching: the loop never breaks
StopSearching_never(count, len) == FALSE

\* the condition of `break`
StopSearching(count, len) ==
    \/ count > 0 /\ len >= EnoughResults
    \/ len >= PlentyResults

\* primary, then the alternatives
QueriesToTry(sq) == <<sq.primary>> \o sq.alternatives

\* the answers of search_with_options: runs of results with consecutive
\* magnet links under one title, and a page that lists a magnet link twice
Page(lo, hi, title) ==
    [i \in 1..(hi + 1 - lo) |-> NyaaResult(title, lo + i - 1)]

SearchResponses ==
    {<< >>,
     Page(1, EnoughResults - 1, T_Plain),
     Page(1, EnoughResults - 1, T_Episode),
     Page(EnoughResults - 3, EnoughResults + 2, T_Episode),
     Page(1, PlentyResults, T_Plain),
     <<NyaaResult(T_Plain, PlentyResults + 1),
       NyaaResult(T_Episode, PlentyResults + 1),
       NyaaResult(T_Episode, PlentyResults + 2)>>}

SearchInputs == {RankQuery_S01E09, Q_Frieren, Q_Frieren_S00E05}

SearchInit ==
    /\ InitTrackingIdle
    /\ InitBatchIdle
    /\ InitCategorizeIdle
    /\ InitParserIdle
    /\ InitRankIdle
    /\ user_query \in SearchInputs
    /\ parsed_query = << >>
    /\ search_query = << >>
    /\ overflow_checks \in BOOLEAN
    /\ called = {}
    /\ query_idx = 0
    /\ all_results = << >>
    /\ seen_magnets = {}
    /\ issued = << >>
    /\ spc = "called"

\* the end of search after the loop: rank_results and Ok(all_results)
SearchReturns(rs) == rank_results(rs, search_query.parsed)

\* search up to the loop: smart_search(query), which can panic
BeginSearch ==
    /\ spc = "called"
    /\ search_query' = build_search_query(user_query, overflow_checks)
    /\ spc' = IF Panicked(search_query') THEN "panicked" ELSE "loop"
    /\ UNCHANGED <<user_query, parsed_query, overflow_checks, called,
                   query_idx, all_results, seen_magnets, issued>>

\* one turn of the loop whose search_with_options gives Ok(rs); the turn
\* that leaves the loop also ranks and returns
QueryOk(rs) ==
    /\ spc = "loop"
    /\ query_idx < Len(QueriesToTry(search_query))
    /\ query_idx' = query_idx + 1
    /\ issued' = Append(issued,
                        [query |-> QueriesToTry(search_query)[query_idx + 1],
                         ok |-> TRUE, results |-> rs])
    /\ seen_magnets' = seen_magnets \cup
                           {rs[i].magnet_link : i \in DOMAIN rs}
    /\ IF \/ StopSearching(Len(NewResults(rs, seen_magnets)),
                           Len(all_results)
                               + Len(NewResults(rs, seen_magnets)))
          \/ query_idx' = Len(QueriesToTry(search_query))
       THEN /\ all_results' =
                   SearchReturns(all_results \o NewResults(rs, seen_magnets))
            /\ spc' = "returned"
       ELSE /\ all_results' = all_results \o NewResults(rs, seen_magnets)
            /\ spc' = "loop"
    /\ UNCHANGED <<query_vars, called>>

\* one turn of the loop whose search_with_options gives Err(e)
QueryErr ==
    /\ spc = "loop"
    /\ query_idx < Len(QueriesToTry(search_query))
    /\ query_idx' = query_idx + 1
    /\ issued' = Append(issued,
                        [query |-> QueriesToTry(search_query)[query_idx + 1],
                         ok |-> FALSE, results |-> << >>])
    /\ IF query_idx' = Len(QueriesToTry(search_query))
       THEN /\ all_results' = SearchReturns(all_results)
            /\ spc' = "returned"
       ELSE /\ all_results' = all_results
            /\ spc' = "loop"
    /\ UNCHANGED <<query_vars, called, seen_magnets>>

SearchNext ==
    \/ BeginSearch
          /\ UNCHANGED <<tracking_vars, batch_vars, categorize_vars, parser_vars,
                         rank_vars>>
    \/ \E rs \in SearchResponses : QueryOk(rs)
          /\ UNCHANGED <<tracking_vars, batch_vars, categorize_vars, parser_vars,
                         rank_vars>>
    \/ QueryErr
          /\ UNCHANGED <<tracking_vars, batch_vars, categorize_vars, parser_vars,
                         rank_vars>>

SearchSpec == SearchInit /\ [][SearchNext]_vars

-----------------------------------------------------------------------------
(* The update matcher's claims                                             *)

\* the series whose arm was taken last
LastSeries == tracked[series_idx - 1]

\* the records pushed for the last series
SeriesUpdates == SubSeq(updates, upd_base + 1, Len(updates))

\* the library show matched to the last series
LastShow == existing_show(library, LastSeries)

\* the positions of the last results that pass every filter with episode e
Survivors(e) ==
    {i \in 1..Len(results) :
        Candidate(LastShow, existing_torrents, LastSeries, results[i].title) = Some(e)}

\* the episode numbers the last results parse to
ResultEpisodes ==
    {Unwrap(TitleEpisode(results[i].title)) :
        i \in {j \in 1..Len(results) : IsSome(TitleEpisode(results[j].title))}}

\* the episode numbers with a surviving candidate
SurvivingEpisodes == {e \in ResultEpisodes : Survivors(e) # {}}

\* the name of some in-flight torrent equals the title, case-insensitively
InFlight(title) ==
    \E i \in 1..Len(existing_torrents) :
        to_lowercase(existing_torrents[i]) = TitleLower(title)

\* every episode number stored in a show, in the flat list or in a season
OwnedEpisodes(show) ==
    Range(show.episodes)
        \cup UNION {Range(show.seasons[k].episodes) : k \in 1..Len(show.seasons)}

UpdateEpisodes == {SeriesUpdates[i].episode_number : i \in 1..Len(SeriesUpdates)}

\* the watermark scenario: min_episode = 5, no filter configured, the matched
\* show lists episode 6 (and neither 5 nor 7) in Show.episodes, the results
\* parse to episodes 5, 6 and 7, and no result is in flight
C1_Scenario ==
    /\ outcome = "ok"
    /\ LastSeries.min_episode = 5
    /\ LastSeries.filter_group = None
    /\ LastSeries.filter_quality = None
    /\ IsSome(LastShow)
    /\ Range(Unwrap(LastShow).episodes) \cap {5, 6, 7} = {6}
    /\ ResultEpisodes = {5, 6, 7}
    /\ \A i \in 1..Len(results) : ~InFlight(results[i].title)

\* C1 (as claimed): in the watermark scenario the candidates for episodes 5
\* and 6 are dropped and exactly the candidate for episode 7 yields an update
\* record.
C1_Original ==
    C1_Scenario => (Len(SeriesUpdates) = 1 /\ UpdateEpisodes = {7})

\* C1 (amended): in the watermark scenario the candidate for episode 6 (owned)
\* is dropped and the candidates for episodes 5 and 7 yield one update record
\* each, episode 5 being at the watermark and not below it; no record is ever
\* pushed for an episode number below the series' min_episode.
C1_WatermarkScenario ==
    /\ C1_Scenario =>
          /\ Len(SeriesUpdates) = 2
          /\ UpdateEpisodes = {5, 7}
          /\ \A i \in 1..Len(SeriesUpdates) :
                /\ SeriesUpdates[i].series_title = LastSeries.title
                /\ \E k \in 1..Len(results) :
                      /\ TitleEpisode(results[k].title)
                            = Some(SeriesUpdates[i].episode_number)
                      /\ SeriesUpdates[i].title = results[k].title
    /\ outcome = "ok" =>
          \A i \in 1..Len(SeriesUpdates) :
              SeriesUpdates[i].episode_number >= LastSeries.min_episode

C1_Witness == C1_Scenario /\ Len(results) = 3 /\ UpdateEpisodes = {5, 7}

\* a result below the watermark was returned and no record was pushed for it
C1_WitnessBelow ==
    /\ outcome = "ok"
    /\ \E e \in ResultEpisodes : e < LastSeries.min_episode
    /\ SeriesUpdates # << >>

\* C2 (as claimed): no update record is pushed for an episode number that the
\* matched library show stores, in its flat episode list or in a season.
C2_NeverOwnedEpisode ==
    (outcome = "ok" /\ IsSome(LastShow)) =>
        UpdateEpisodes \cap OwnedEpisodes(Unwrap(LastShow)) = {}

\* C3 (as claimed): whether or not a library show matches the series, no
\* update record carries a title that equals, case-insensitively, the name of
\* an in-flight torrent.
C3_NeverInFlightTitle ==
    outcome = "ok" =>
        \A i \in 1..Len(SeriesUpdates) : ~InFlight(SeriesUpdates[i].title)

\* C4: the records pushed for a series are exactly one per episode number
\* that has a candidate surviving every filter: no episode number occurs
\* twice, none is missing, and each record carries the magnet and title of a
\* surviving candidate of its episode, under the series' title.
C4_OneRecordPerEpisode ==
    outcome = "ok" =>
        /\ UpdateEpisodes = SurvivingEpisodes
        /\ Len(SeriesUpdates) = Cardinality(SurvivingEpisodes)
        /\ \A i \in 1..Len(SeriesUpdates) :
              LET r == SeriesUpdates[i] IN
              /\ r.series_title = LastSeries.title
              /\ \E k \in Survivors(r.episode_number) :
                    /\ r.magnet = results[k].magnet_link
                    /\ r.title = results[k].title

C4_Witness ==
    /\ outcome = "ok"
    /\ Len(SeriesUpdates) = 2
    /\ \E e \in SurvivingEpisodes : Cardinality(Survivors(e)) = 2

\* the score the claim gives a title: 1080p = 10, 720p = 5, anything else 0
ClaimedScore(title) ==
    LET q == TitleQuality(title)
    IN IF q = Some(<<"1","0","8","0","p">>) THEN 10
       ELSE IF q = Some(<<"7","2","0","p">>) THEN 5
       ELSE 0

\* the first position among the survivors of episode e with the highest score
FirstBest(e) ==
    LET top == MaxOf({ClaimedScore(results[i].title) : i \in Survivors(e)})
    IN MinOf({i \in Survivors(e) : ClaimedScore(results[i].title) = top})

C6_FiltersRespected ==
    outcome = "ok" =>
        \A i \in 1..Len(SeriesUpdates) :
            LET t == SeriesUpdates[i].title IN
            /\ IsSome(LastSeries.filter_group) =>
                  /\ IsSome(TitleGroup(t))
                  /\ Contains(Unwrap(TitleGroup(t)),
                              Unwrap(LastSeries.filter_group))
            /\ IsSome(LastSeries.filter_quality) =>
                  /\ IsSome(TitleQuality(t))
                  /\ Unwrap(TitleQuality(t))
                        = to_lowercase(Unwrap(LastSeries.filter_quality))

\* both filters set; a title without a group, one without a quality token and
\* one passing both were returned, and only the last was pushed
C6_Witness ==
    /\ outcome = "ok"
    /\ IsSome(LastSeries.filter_group)
    /\ IsSome(LastSeries.filter_quality)
    /\ \E i \in 1..Len(results) : TitleGroup(results[i].title) = None
    /\ \E i \in 1..Len(results) :
          /\ TitleQuality(results[i].title) = None
          /\ IsSome(TitleEpisode(results[i].title))
    /\ Len(SeriesUpdates) = 1

-----------------------------------------------------------------------------
(* Claims about the batch analyzer (under BatchSpec)                       *)

Returned == bpc = "returned"

\* the videos the analysis holds: loose, per season, per special bucket
HeldVideos ==
    Len(analysis.loose_episodes)
        + SumEpisodes(analysis.seasons, 1)
        + Len(analysis.specials.ovas) + Len(analysis.specials.movies)
        + Len(analysis.specials.specials) + Len(analysis.specials.extras)

\* C7: every BatchAnalysis that analyze_batch returns, on every return path
\* (empty analysis, single video file, failed directory listing, full
\* directory analysis), has total_videos equal to the number of loose
\* episodes plus the episodes of all seasons plus the four special buckets.
C7_TotalIsSum == Returned => analysis.total_videos = HeldVideos

\* the return path that breaks C7: the listing inside collect_videos_in_dir
\* succeeded and the listing that feeds the scan failed
C7_EarlyReturn ==
    /\ Returned
    /\ root.kind = "dir"
    /\ reads = <<TRUE, FALSE>>
    /\ analysis.loose_episodes # << >>
    /\ analysis.total_videos = 0

SomeSpecial ==
    \/ Len(analysis.specials.ovas) > 0
    \/ Len(analysis.specials.movies) > 0
    \/ Len(analysis.specials.specials) > 0
    \/ Len(analysis.specials.extras) > 0

C8_WitnessBelow ==
    /\ Returned
    /\ root.kind = "dir"
    /\ analysis.seasons = << >>
    /\ ~SomeSpecial
    /\ analysis.total_videos = 3
    /\ ~analysis.is_batch

\* C9: the seasons of a returned analysis are in non-decreasing order of
\* their number, the seasons merged up from an uncategorized subdirectory
\* included.
C9_SeasonsSorted ==
    Returned =>
        \A i, j \in 1..Len(analysis.seasons) :
            i < j => analysis.seasons[i].number <= analysis.seasons[j].number

\* the root lists a season folder before an uncategorized folder whose own
\* seasons lie on both sides of it
C9_Witness ==
    /\ Returned
    /\ reads[2]
    /\ Len(root.dirs) = 2
    /\ root.dirs[1].name = D_Season_2
    /\ root.dirs[2].name = D_Sub
    /\ Len(root.dirs[2].dirs) = 2
    /\ [i \in 1..Len(analysis.seasons) |-> analysis.seasons[i].number]
           = <<1, 2, 3>>

\* the uncategorized subdirectories of the root, in listing order
UnknownEntries ==
    {i \in 1..Len(root.dirs) : Category(root.dirs[i].name).kind = "Unknown"}

EntryPath(i) == RootPath \o <<root.dirs[i].name>>

SubAnalysis(i) == analyze_batch(EntryPath(i), root.dirs[i], SubReads)

EntryVideos(i) == collect_videos_in_dir(EntryPath(i), root.dirs[i], TRUE)

EntriesOfKind(kind) ==
    {i \in 1..Len(root.dirs) : Category(root.dirs[i].name).kind = kind}

\* C11 as stated: the videos of a subdirectory categorised Extra end up in
\* the bucket that holds the videos of a subdirectory categorised Special.
C11_Original ==
    (Returned /\ root.kind = "dir" /\ reads[2]) =>
        \A i \in EntriesOfKind("Extra") :
            Range(EntryVideos(i)) \subseteq Range(analysis.specials.specials)

\* C11: the videos of a subdirectory categorised Extra are appended to the
\* extras bucket of the specials, a bucket of its own: none of them is in
\* the bucket of the Special subdirectories, and no video of a Special
\* subdirectory is in the extras bucket.
C11_ExtraBucket ==
    (Returned /\ root.kind = "dir" /\ reads[2]) =>
        /\ \A i \in EntriesOfKind("Extra") :
              /\ Range(EntryVideos(i)) \subseteq Range(analysis.specials.extras)
              /\ Range(EntryVideos(i)) \cap Range(analysis.specials.specials)
                     = {}
        /\ \A i \in EntriesOfKind("Special") :
              /\ Range(EntryVideos(i))
                     \subseteq Range(analysis.specials.specials)
              /\ Range(EntryVideos(i)) \cap Range(analysis.specials.extras) = {}

\* an Extra and a Special subdirectory, each with videos
C11_Witness ==
    /\ Returned
    /\ root.kind = "dir"
    /\ reads[2]
    /\ \E i \in EntriesOfKind("Extra") : EntryVideos(i) # << >>
    /\ \E j \in EntriesOfKind("Special") : EntryVideos(j) # << >>
    /\ analysis.specials.extras # << >>
    /\ analysis.specials.specials # << >>

-----------------------------------------------------------------------------
(* Claims about the folder categorizer (under CategorizeSpec)              *)

Categorized == "categorize_folder" \in called

\* C12: categorize_folder returns Season(n) only for n with 0 < n < 100.
C12_SeasonInRange ==
    (Categorized /\ dir_category.kind = "Season") =>
        (0 < dir_category.number /\ dir_category.number < 100)

\* a name whose season marker captures 100 is categorised Season(100)
C12_OutOfRange ==
    /\ Categorized
    /\ dir_name = <<"S", "e", "a", "s", "o", "n", " ", "1", "0", "0">>
    /\ dir_category = [kind |-> "Season", number |-> 100]

Season(n) == [kind |-> "Season", number |-> n]

Bucket(kind) == [kind |-> kind, number |-> 0]

\* the names of MarkerParts that do begin with a season marker: Season N,
\* Part N, Cour N with any gap and anything behind the number; S<N> with one
\* or two digits directly behind the S and the end, a space or a hyphen next
IsSeasonMarker(p) ==
    \/ Len(p.word) > 1
    \/ /\ p.gap = << >>
       /\ Len(p.number.text) <= 2
       /\ p.rest \in { << >>, <<" ", "S", "p", "e", "c", "i", "a", "l", "s">>, <<"-", "x">> }

\* the names of WordParts that are a special-content word as a whole, with
\* an optional plural s (Bonus takes none)
IsWholeWord(p) ==
    /\ p.front = << >>
    /\ p.rest \in { << >>, <<"s">> }
    /\ ~(p.word.text = <<"B", "o", "n", "u", "s">> /\ p.rest = <<"s">>)

\* the names the specification lists, with their categories
ListedNames ==
    { <<<<"S", "e", "a", "s", "o", "n", " ", "1">>, Season(1)>>, <<<<"S", "0", "1">>, Season(1)>>,
      <<<<"P", "a", "r", "t", " ", "1">>, Season(1)>>, <<<<"C", "o", "u", "r", " ", "1">>, Season(1)>>,
      <<<<"O", "V", "A", "s">>, Bucket("Ova")>>, <<<<"S", "p", "e", "c", "i", "a", "l", "s">>, Bucket("Special")>>,
      <<<<"M", "o", "v", "i", "e", "s">>, Bucket("Movie")>>, <<<<"N", "C", "O", "P">>, Bucket("Extra")>>,
      <<<<"R", "a", "n", "d", "o", "m", " ", "F", "o", "l", "d", "e", "r">>, Bucket("Unknown")>> }

\* C13: categorize_folder applies an ordered table: a name that starts with
\* a season marker is Season(N), whatever special word follows; otherwise
\* the name is Ova, Special, Movie or Extra exactly when the whole name,
\* case-insensitively and with an optional plural, is one of the special
\* words; every other name is Unknown; the listed names get the listed
\* categories.
C13_OrderedTable ==
    Categorized =>
        /\ \A p \in MarkerParts :
              MarkerName(p) = dir_name =>
                  dir_category = IF IsSeasonMarker(p)
                                 THEN Season(p.number.value)
                                 ELSE Bucket("Unknown")
        /\ \A p \in WordParts :
              WordName(p) = dir_name =>
                  dir_category = IF IsWholeWord(p)
                                 THEN Bucket(p.word.kind)
                                 ELSE Bucket("Unknown")
        /\ \A l \in ListedNames : l[1] = dir_name => dir_category = l[2]

\* "Season 1 Specials" is a season although a special word follows
C13_Witness ==
    /\ Categorized
    /\ dir_name = <<"S", "e", "a", "s", "o", "n", " ", "1", " ", "S", "p", "e", "c", "i", "a", "l", "s">>
    /\ dir_category = Season(1)

\* every listed name is among the names categorised
C13_ListedCovered == \A l \in ListedNames : l[1] \in FolderNameChoices

-----------------------------------------------------------------------------
(* The file-name parser's claims                                           *)

EpisodeParsed == "parse_episode_number" \in called

SeasonParsed == "parse_season_number" \in called

\* C14: for every file name "{base} - {NN}v{k}" followed by an extension, a
\* bracket or the end of the string, parse_episode_number returns NN for
\* every version number k, of one digit or of several.
C14_VersionIgnored ==
    \A p \in VersionParts :
        (EpisodeParsed /\ file_name = VersionName(p))
            => file_episode = Some(p.episode.value)

\* C14: a version number of several digits makes the " - NN" pattern fail and
\* no other pattern takes the name: no episode is parsed.
C14_MultiDigitVersion ==
    /\ EpisodeParsed
    /\ \E p \in VersionParts :
          /\ file_name = VersionName(p)
          /\ Len(p.version) > 1
          /\ file_episode = None

\* C15: for every file name that contains an SxxEyy token,
\* parse_episode_number returns yy and parse_season_number returns xx.
C15_SeasonEpisodeToken ==
    \A p \in TokenParts :
        file_name = TokenName(p) =>
            /\ EpisodeParsed => file_episode = Some(p.episode.value)
            /\ SeasonParsed => file_season = Some(p.season.value)

\* C15: behind an underscore the S of the token is at no word boundary: the
\* episode is parsed and the season is not.
C15_UnderscoreToken ==
    /\ EpisodeParsed
    /\ SeasonParsed
    /\ \E p \in TokenParts :
          /\ file_name = TokenName(p)
          /\ p.front = <<"S", "h", "o", "w", "_">>
          /\ p.back = <<".", "m", "k", "v">>
          /\ file_episode = Some(p.episode.value)
          /\ file_season = None

\* pattern.captures on the stripped name, for each entry of EPISODE_PATTERNS
EpisodeCaptures ==
    [n \in 1..NumEpisodePatterns |->
        EpisodeCapture(n, StripCompressed(file_name))]

\* pattern.captures on the name, for each entry of SEASON_PATTERNS
SeasonCaptures ==
    [n \in 1..NumTitleSeasonPatterns |-> TitleSeasonCapture(n, file_name)]

\* the patterns whose capture lies strictly between 0 and upper
HitsBelow(captures, upper) ==
    {n \in DOMAIN captures :
        /\ IsSome(captures[n])
        /\ Unwrap(captures[n]) > 0
        /\ Unwrap(captures[n]) < upper}

\* C16: parse_episode_number returns None or n with 0 < n < 1000 and
\* parse_season_number returns None or n with 0 < n < 100; an out-of-range
\* capture is passed over for the next pattern, and the result is None only
\* when no pattern captures an in-range number.
C16_InRangeOrNone ==
    /\ EpisodeParsed =>
          LET captures == EpisodeCaptures
              hits == HitsBelow(captures, 1000)
          IN /\ file_episode = None <=> hits = {}
             /\ file_episode # None =>
                   /\ Unwrap(file_episode) > 0
                   /\ Unwrap(file_episode) < 1000
                   /\ file_episode = captures[MinOf(hits)]
    /\ SeasonParsed =>
          LET captures == SeasonCaptures
              hits == HitsBelow(captures, 100)
          IN /\ file_season = None <=> hits = {}
             /\ file_season # None =>
                   /\ Unwrap(file_season) > 0
                   /\ Unwrap(file_season) < 100
                   /\ file_season = captures[MinOf(hits)]

\* the patterns whose out-of-range capture comes before an in-range one
PassedOver(captures, upper) ==
    {n \in DOMAIN captures :
        /\ IsSome(captures[n])
        /\ n \notin HitsBelow(captures, upper)
        /\ \E m \in HitsBelow(captures, upper) : n < m}

\* C16: both parsers passed over an out-of-range capture and returned the
\* in-range capture of a later pattern.
C16_Witness ==
    /\ EpisodeParsed
    /\ SeasonParsed
    /\ PassedOver(EpisodeCaptures, 1000) # {}
    /\ PassedOver(SeasonCaptures, 100) # {}
    /\ file_episode # None
    /\ file_season # None

\* C16: a pattern matches, every capture is out of range and
\* parse_episode_number returns None.
C16_WitnessNone ==
    /\ EpisodeParsed
    /\ \E n \in 1..NumEpisodePatterns : IsSome(EpisodeCaptures[n])
    /\ file_episode = None

\* the forms of the documented cascade, in its order: " - NN", SxxEyy,
\* separator-delimited bare number, leading bare number, Ep/Episode prefix,
\* E + digits; the capture of a match that starts at i
FormAt(n, s, i) ==
    CASE n = 1 -> EpPattern1At(s, i)
      [] n = 2 -> EpPattern2At(s, i)
      [] n = 3 -> EpPattern3At(s, i)
      [] n = 4 -> EpPattern4At(s, i)
      [] n = 5 -> EpPattern5At(s, i)
      [] n = 6 -> EpPattern6At(s, i)

\* where the n-th form matches in s
FormStarts(n, s) == {i \in 1..(Len(s) + 1) : IsSome(FormAt(n, s, i))}

\* the capture of each form on the stripped name
DocumentedForms ==
    LET s == StripCompressed(file_name)
    IN [n \in 1..6 |->
           IF FormStarts(n, s) = {} THEN None
           ELSE FormAt(n, s, MinOf(FormStarts(n, s)))]

\* C17: parse_episode_number is a first-match-wins cascade in the documented
\* order: when forms of different priority match with in-range captures, the
\* result is the capture of the form of highest priority, wherever in the
\* string each of them matches.
C17_PriorityOrder ==
    EpisodeParsed =>
        LET forms == DocumentedForms
            hits == HitsBelow(forms, 1000)
        IN hits # {} => file_episode = forms[MinOf(hits)]

\* C17: a form of lower priority matches earlier in the name with another
\* in-range capture, and the capture of the higher-priority form is returned.
C17_Witness ==
    /\ EpisodeParsed
    /\ LET s == StripCompressed(file_name)
           forms == DocumentedForms
           hits == HitsBelow(forms, 1000)
       IN \E n, m \in hits :
             /\ n < m
             /\ forms[n] # forms[m]
             /\ MinOf(FormStarts(m, s)) < MinOf(FormStarts(n, s))
             /\ file_episode = forms[n]

-----------------------------------------------------------------------------
(* The query parser's claims                                               *)

QueryParsed == "parse_query" \in called

QueryBuilt == "build_search_query" \in called

\* the parts a query of the model is made of
QueryPartsOf ==
    [text \in QueryChoices |-> {p \in QueryParts : QueryText(p) = text}]

\* C18: in every ParsedQuery returned by parse_query, an episode comes with a
\* season; a query that gives an episode with no season marker ("Ep N",
\* "Episode N") has season Some(1).
C18_EpisodeHasSeason ==
    QueryParsed =>
        /\ IsSome(parsed_query.episode) => IsSome(parsed_query.season)
        /\ \A p \in QueryPartsOf[user_query] :
              p.marker.kind = "episode" =>
                  /\ parsed_query.episode = p.marker.episode
                  /\ parsed_query.season = Some(1)

\* C18: a query "Ep N" or "Episode N" without season marker was parsed.
C18_Witness ==
    /\ QueryParsed
    /\ \E p \in QueryPartsOf[user_query] :
          /\ p.marker.kind = "episode"
          /\ p.show.text # << >>
          /\ parsed_query.episode = p.marker.episode
          /\ parsed_query.season = Some(1)

\* "One Piece S02"
Q_One_Piece_S02 ==
    <<"O", "n", "e", " ", "P", "i", "e", "c", "e", " ", "S", "0", "2">>

\* "Frieren S01E09"
Q_Frieren_S01E09 ==
    <<"F", "r", "i", "e", "r", "e", "n", " ", "S", "0", "1", "E", "0", "9">>

\* C19: parse_query sets is_batch_request exactly when the query holds a
\* batch indicator (batch, complete, full, all episodes, a range N-M) or the
\* parsed season is present while the parsed episode is absent; "One Piece
\* S02" gives season 2, no episode and a batch request, "Frieren S01E09" gives
\* no batch request.
C19_BatchExactly ==
    QueryParsed =>
        /\ \A p \in QueryPartsOf[user_query] :
              /\ parsed_query.is_batch_request
                    <=> \/ p.show.indicator
                        \/ p.indicator.indicator
                        \/ /\ IsSome(parsed_query.season)
                           /\ ~IsSome(parsed_query.episode)
              /\ p.marker.kind = "season" =>
                    /\ parsed_query.season = p.marker.season
                    /\ parsed_query.episode = None
                    /\ parsed_query.is_batch_request
        /\ user_query = Q_One_Piece_S02 =>
              /\ parsed_query.season = Some(2)
              /\ parsed_query.episode = None
              /\ parsed_query.is_batch_request
        /\ user_query = Q_Frieren_S01E09 => ~parsed_query.is_batch_request

\* C19: "One Piece S02" was parsed: a season with no episode and no batch
\* word makes the batch request.
C19_Witness ==
    /\ QueryParsed
    /\ user_query = Q_One_Piece_S02
    /\ parsed_query.is_batch_request
    /\ ~BatchIndicatorMatch(user_query)

\* C19: a query with an episode and a batch word is a batch request, and one
\* with an episode and none is not.
C19_WitnessIndicator ==
    /\ QueryParsed
    /\ IsSome(parsed_query.episode)
    /\ \E p \in QueryPartsOf[user_query] :
          parsed_query.is_batch_request /\ p.indicator.indicator

\* e zero-padded to two digits
TwoDigits(e) ==
    IF e < 10 THEN <<"0", Digits[e + 1]>>
    ELSE IF e < 100 THEN <<Digits[(e \div 10) + 1], Digits[(e % 10) + 1]>>
    ELSE <<Digits[(e \div 100) + 1], Digits[((e \div 10) % 10) + 1],
           Digits[(e % 10) + 1]>>

\* C20: for a non-batch query that parses to a non-empty show name, season 1
\* (explicit or implied) and episode e, build_search_query returns the primary
\* "<show> <e as two digits>" and alternatives that contain "<show> - <e as
\* two digits>"; "Frieren S01E09" gives show "Frieren", season 1, episode 9
\* and the primary "Frieren 09".
C20_SeasonOnePrimary ==
    QueryBuilt =>
        /\ \A p \in QueryPartsOf[user_query] :
              (/\ p.marker.kind \in {"both", "episode"}
               /\ p.marker.kind = "both" => p.marker.season = Some(1)
               /\ p.show.name # << >>
               /\ ~p.show.indicator
               /\ ~p.indicator.indicator)
                  => /\ ~Panicked(search_query)
                     /\ search_query.parsed.show_name = p.show.name
                     /\ search_query.parsed.season = Some(1)
                     /\ search_query.parsed.episode = p.marker.episode
                     /\ ~search_query.parsed.is_batch_request
                     /\ search_query.primary
                           = p.show.name \o <<" ">> \o p.marker.padded
                     /\ \E i \in 1..Len(search_query.alternatives) :
                           search_query.alternatives[i]
                              = p.show.name \o <<" ", "-", " ">>
                                    \o p.marker.padded
        /\ (/\ ~Panicked(search_query)
            /\ ~search_query.parsed.is_batch_request
            /\ search_query.parsed.show_name # << >>
            /\ search_query.parsed.season = Some(1)
            /\ IsSome(search_query.parsed.episode))
               => LET show == search_query.parsed.show_name
                      e == Unwrap(search_query.parsed.episode)
                  IN /\ search_query.primary
                           = show \o <<" ">> \o TwoDigits(e)
                     /\ \E i \in 1..Len(search_query.alternatives) :
                           search_query.alternatives[i]
                              = show \o <<" ", "-", " ">> \o TwoDigits(e)
        /\ user_query = Q_Frieren_S01E09 =>
              /\ search_query.parsed.show_name
                    = <<"F", "r", "i", "e", "r", "e", "n">>
              /\ search_query.parsed.season = Some(1)
              /\ search_query.parsed.episode = Some(9)
              /\ search_query.primary
                    = <<"F", "r", "i", "e", "r", "e", "n", " ", "0", "9">>

\* C20: a non-batch query of season 1 with an episode below 10 was built
\* into its searches, the episode padded to two digits.
C20_Witness ==
    /\ QueryBuilt
    /\ ~Panicked(search_query)
    /\ ~search_query.parsed.is_batch_request
    /\ search_query.parsed.show_name # << >>
    /\ search_query.parsed.season = Some(1)
    /\ IsSome(search_query.parsed.episode)
    /\ Unwrap(search_query.parsed.episode) < 10
    /\ search_query.primary
          = search_query.parsed.show_name \o <<" ", "0">>
               \o to_string(Unwrap(search_query.parsed.episode))

\* the queries of the model that ask for one episode: a show name, a marker
\* with an episode and no batch word
EpisodeRequests ==
    {p \in QueryPartsOf[user_query] :
        /\ p.marker.kind \in {"both", "episode"}
        /\ p.show.name # << >>
        /\ ~p.show.indicator
        /\ ~p.indicator.indicator}

\* the season such a query asks for, 1 when it names none
AskedSeason(p) ==
    IF p.marker.kind = "both" THEN Unwrap(p.marker.season) ELSE 1

\* primary followed by alternatives
Generated == <<search_query.primary>> \o search_query.alternatives

\* C21: for a non-batch query with season s and episode e, the season-tagged
\* forms and the absolute-episode estimate are generated exactly when s >= 2:
\* then the primary contains "S<s as two digits>" and the list contains
\* "<show> <(s-1)*12 + e as two digits>"; for s < 2 only the season-1 forms
\* are generated.
C21_TaggedFromSeasonTwo ==
    QueryBuilt =>
        \A p \in EpisodeRequests :
            LET s == AskedSeason(p)
                e == Unwrap(p.marker.episode)
            IN /\ ~Panicked(search_query)
               /\ IF s >= 2
                  THEN /\ Contains(search_query.primary,
                                   <<"S">> \o TwoDigits(s))
                       /\ \E i \in 1..Len(Generated) :
                             Generated[i] = p.show.name \o <<" ">>
                                               \o TwoDigits((s - 1) * 12 + e)
                  ELSE /\ search_query.primary
                             = p.show.name \o <<" ">> \o p.marker.padded
                       /\ \A i \in 1..Len(Generated) :
                             ~Contains(Generated[i], <<"S">> \o TwoDigits(s))

\* C21: a query of season 0 was built, without overflow checks, into the
\* season-tagged forms.
C21_SeasonZeroTagged ==
    /\ QueryBuilt
    /\ ~Panicked(search_query)
    /\ search_query.parsed.season = Some(0)
    /\ IsSome(search_query.parsed.episode)
    /\ ~search_query.parsed.is_batch_request
    /\ search_query.parsed.show_name # << >>
    /\ Contains(search_query.primary, <<"S", "0", "0">>)

\* C22: build_search_query has no failure mode: for every input, also with a
\* parsed season or episode of 0, it returns a SearchQuery, and no u32
\* arithmetic in it, (season - 1) * 12 + episode in particular, overflows or
\* underflows.
C22_NoFailure ==
    QueryBuilt =>
        /\ ~Panicked(search_query)
        /\ ~EstimateOverflows(search_query.parsed)

\* C22: with overflow checks on, build_search_query panicked on a query of
\* season 0.
C22_Panic ==
    /\ QueryBuilt
    /\ overflow_checks
    /\ Panicked(search_query)
    /\ EstimateOverflows(parse_query(user_query))

\* C22: with overflow checks off, the subtraction wrapped and a SearchQuery
\* was returned.
C22_Wrapped ==
    /\ QueryBuilt
    /\ ~overflow_checks
    /\ ~Panicked(search_query)
    /\ EstimateOverflows(search_query.parsed)

\* C23: for a batch request with parsed season s >= 2 the generated queries
\* include the show name followed by the ordinal-season form of s with the
\* correct English suffix, the string ordinal(s) produces ("2nd Season",
\* "3rd Season", "11th Season", ...).
C23_OrdinalSeasonForm ==
    (/\ QueryBuilt
     /\ ~Panicked(search_query)
     /\ search_query.parsed.is_batch_request
     /\ search_query.parsed.show_name # << >>
     /\ IsSome(search_query.parsed.season)
     /\ Unwrap(search_query.parsed.season) >= 2)
        => \E i \in 1..Len(Generated) :
              Generated[i] = search_query.parsed.show_name \o <<" ">>
                                \o ordinal(Unwrap(search_query.parsed.season))

\* C23: a batch request of season 3 was built into "<show> 3nd Season".
C23_ThirdSeason ==
    /\ QueryBuilt
    /\ ~Panicked(search_query)
    /\ search_query.parsed.is_batch_request
    /\ search_query.parsed.show_name # << >>
    /\ search_query.parsed.season = Some(3)
    /\ \E i \in 1..Len(Generated) :
          Generated[i] = search_query.parsed.show_name
                            \o <<" ", "3", "n", "d", " ", "S", "e", "a", "s",
                                 "o", "n">>

\* C29: the query strings build_search_query produces, primary followed by
\* alternatives, are pairwise distinct, for every parsed season and every
\* episode number, episodes of 10 and more included.
C29_PairwiseDistinct ==
    (QueryBuilt /\ ~Panicked(search_query)) =>
        \A i, j \in 1..Len(Generated) : i # j => Generated[i] # Generated[j]

\* C29: for season 1 and an episode of at least 10 the unpadded form is
\* generated behind the padded ones and repeats the primary.
C29_PrimaryTwice ==
    /\ QueryBuilt
    /\ ~Panicked(search_query)
    /\ ~search_query.parsed.is_batch_request
    /\ search_query.parsed.season = Some(1)
    /\ IsSome(search_query.parsed.episode)
    /\ Unwrap(search_query.parsed.episode) >= 10
    /\ Len(search_query.alternatives) = 5
    /\ search_query.alternatives[5] = search_query.primary

-----------------------------------------------------------------------------
(* The claims on score_result and rank_results                             *)

Scored == "score_result" \in called

Ranked == "rank_results" \in called

\* the batch-indicating tokens, as they stand in a lower-cased title
BatchTokens ==
    {<<"b", "a", "t", "c", "h">>,
     <<"c", "o", "m", "p", "l", "e", "t", "e">>,
     <<"1", "-">>,
     <<"0", "1", "-">>}

HasBatchToken(title) ==
    \E tok \in BatchTokens : Contains(to_lowercase(title), tok)

\* the query asks for one episode and is no batch request
WantsOneEpisode == IsSome(parsed_query.episode) /\ ~parsed_query.is_batch_request

\* C24: when the parsed query has an episode and is no batch request,
\* score_result takes 50 off a title that contains a batch token (batch,
\* complete, "1-", "01-"): a title without such a token loses exactly 50 when
\* one is put behind it, and nothing when the query is a batch request or has
\* no episode, or when the title had a token already; so for "Frieren S01E09"
\* the single-episode title scores strictly higher than the batch title.
C24_BatchPenalty ==
    Scored =>
        /\ \A i \in DOMAIN candidates : \A tok \in BatchTokens :
              score_result(candidates[i].title \o <<" ">> \o tok, parsed_query)
                  = title_scores[i]
                      - (IF WantsOneEpisode /\ ~HasBatchToken(candidates[i].title)
                         THEN 50 ELSE 0)
        /\ user_query = RankQuery_S01E09 =>
              \A i, j \in DOMAIN candidates :
                  (candidates[i].title = T_Episode /\ candidates[j].title = T_Batch)
                      => title_scores[i] > title_scores[j]

\* C24: "Frieren S01E09" has scored the single-episode title 175 and the
\* batch title 75.
C24_EpisodeAboveBatch ==
    /\ Scored
    /\ user_query = RankQuery_S01E09
    /\ WantsOneEpisode
    /\ candidates = <<NyaaResult(T_Episode, 1), NyaaResult(T_Batch, 2)>>
    /\ title_scores = <<175, 75>>

\* C24: the batch request "Frieren S01E09 batch" has an episode and has
\* scored the batch title without the penalty.
C24_BatchRequestUnpenalised ==
    /\ Scored
    /\ user_query = Q_Frieren_S01E09_batch
    /\ IsSome(parsed_query.episode)
    /\ parsed_query.is_batch_request
    /\ candidates = <<NyaaResult(T_Batch, 1)>>
    /\ title_scores = <<125>>

\* the place a ranked result had in the input
InputPlace(r) == CHOOSE k \in DOMAIN candidates : candidates[k] = r

\* C25: after rank_results the list is a permutation of the input, the
\* score_result values do not increase along it, and two results of equal
\* score keep the order they had in the input.
C25_StableDescending ==
    Ranked =>
        /\ Len(ranked) = Len(candidates)
        /\ \A i \in DOMAIN candidates :
              Cardinality({k \in DOMAIN ranked : ranked[k] = candidates[i]})
                  = Cardinality({k \in DOMAIN candidates :
                                    candidates[k] = candidates[i]})
        /\ \A i, j \in DOMAIN ranked :
              i < j =>
                  /\ score_result(ranked[i].title, parsed_query)
                         >= score_result(ranked[j].title, parsed_query)
                  /\ score_result(ranked[i].title, parsed_query)
                         = score_result(ranked[j].title, parsed_query)
                        => InputPlace(ranked[i]) < InputPlace(ranked[j])

\* C25: two different titles of equal score have been ranked and stand as
\* they stood in the input.
C25_TieKept ==
    /\ Ranked
    /\ Len(candidates) = 2
    /\ candidates[1].title # candidates[2].title
    /\ score_result(candidates[1].title, parsed_query)
           = score_result(candidates[2].title, parsed_query)
    /\ ranked = candidates

\* C25: the input held the lower score first and the ranking has turned the
\* two results round.
C25_Reordered ==
    /\ Ranked
    /\ Len(candidates) = 2
    /\ score_result(candidates[1].title, parsed_query)
           < score_result(candidates[2].title, parsed_query)
    /\ ranked = <<candidates[2], candidates[1]>>

-----------------------------------------------------------------------------
(* The claims on NyaaClient::search                                        *)

SearchRuns == spc \in {"loop", "returned"}

\* the magnet links in the answers to the first i queries tried
MagnetsUpTo(i) ==
    UNION {{issued[k].results[n].magnet_link : n \in DOMAIN issued[k].results} :
              k \in 1..i}

UniqueUpTo(i) == Cardinality(MagnetsUpTo(i))

\* after the i-th query tried: it gave a new result and 15 unique results
\* have accumulated, or 30 have
EnoughAfter(i) ==
    /\ issued[i].ok
    /\ \/ UniqueUpTo(i) > UniqueUpTo(i - 1) /\ UniqueUpTo(i) >= 15
       \/ UniqueUpTo(i) >= 30

\* C26: NyaaClient::search tries the primary query first and then the
\* alternatives in their generated order; no query is tried after one whose
\* results were processed with enough unique results accumulated (that query
\* gave a new one and there are 15, or there are 30); a query that fails is
\* passed over, so the search returns only after such a query or after the
\* last alternative.
C26_QueriesInOrder ==
    /\ spc \in {"called", "panicked"} => issued = << >>
    /\ SearchRuns =>
          /\ Len(issued) <= Len(Generated)
          /\ \A i \in DOMAIN issued : issued[i].query = Generated[i]
          /\ \A i \in DOMAIN issued : i < Len(issued) => ~EnoughAfter(i)
          /\ spc = "loop" => Len(issued) < Len(Generated)
          /\ spc = "returned" =>
                \/ Len(issued) = Len(Generated)
                \/ EnoughAfter(Len(issued))

\* C26: the primary failed, the first alternative gave 14 results, the
\* second gave new ones, and the search returned with alternatives untried.
C26_StoppedAfterFailure ==
    /\ spc = "returned"
    /\ Len(issued) = 3
    /\ Len(Generated) > 3
    /\ ~issued[1].ok
    /\ issued[2].ok
    /\ UniqueUpTo(2) = 14
    /\ UniqueUpTo(3) > 14

\* C26: every query was tried, the last one failed, and fewer than 15
\* results are returned.
C26_AllTried ==
    /\ spc = "returned"
    /\ Len(issued) = Len(Generated)
    /\ ~issued[Len(issued)].ok
    /\ Len(all_results) \in 1..14

FirstPageWith(m) ==
    CHOOSE k \in DOMAIN issued :
        /\ m \in MagnetsUpTo(k)
        /\ m \notin MagnetsUpTo(k - 1)

\* the first result with magnet link m in the answers, in the order tried
FirstWith(m) ==
    LET page == issued[FirstPageWith(m)].results
    IN page[CHOOSE n \in DOMAIN page :
                /\ page[n].magnet_link = m
                /\ \A n2 \in 1..(n - 1) : page[n2].magnet_link # m]

\* C27: the list NyaaClient::search returns holds no magnet link twice; it
\* holds every magnet link the queries tried have returned, with the first
\* result that carried it.
C27_UniqueMagnets ==
    spc = "returned" =>
        /\ \A i, j \in DOMAIN all_results :
              i # j => all_results[i].magnet_link # all_results[j].magnet_link
        /\ {all_results[i].magnet_link : i \in DOMAIN all_results}
               = MagnetsUpTo(Len(issued))
        /\ \A i \in DOMAIN all_results :
              all_results[i] = FirstWith(all_results[i].magnet_link)

\* C27: a magnet link came back a second time under another title, in a later
\* answer, and the returned list holds more than one result.
C27_LaterDuplicateDropped ==
    /\ spc = "returned"
    /\ Len(all_results) > 1
    /\ \E i \in DOMAIN all_results, k \in DOMAIN issued :
          /\ k > FirstPageWith(all_results[i].magnet_link)
          /\ \E n \in DOMAIN issued[k].results :
                /\ issued[k].results[n].magnet_link = all_results[i].magnet_link
                /\ issued[k].results[n].title # all_results[i].title

-----------------------------------------------------------------------------
(* The batch analyzer: no video is lost                                    *)

\* the episodes of the seasons, one season after the other
RECURSIVE SeasonEpisodes(_)
SeasonEpisodes(seasons) ==
    IF seasons = << >> THEN << >>
    ELSE Head(seasons).episodes \o SeasonEpisodes(Tail(seasons))

\* every path the analysis holds: loose, per season, per special bucket
HeldPaths ==
    analysis.loose_episodes \o SeasonEpisodes(analysis.seasons)
        \o analysis.specials.ovas \o analysis.specials.movies
        \o analysis.specials.specials \o analysis.specials.extras

TimesHeld(v) == Cardinality({k \in DOMAIN HeldPaths : HeldPaths[k] = v})

\* the videos directly in the root and directly in its subdirectories
DirectVideos ==
    Range(collect_videos_in_dir(RootPath, root, TRUE))
        \cup UNION {Range(EntryVideos(i)) : i \in 1..Len(root.dirs)}

\* C28: analyze_batch loses no video: every video directly in the root,
\* directly in a categorised subdirectory or directly in an uncategorized
\* subdirectory is held exactly once by loose_episodes, a season's episodes
\* or a special bucket, also when the uncategorized subdirectory holds season
\* or special folders of its own.
C28_NoVideoLost ==
    (Returned /\ root.kind = "dir") =>
        \A v \in DirectVideos : TimesHeld(v) = 1

\* C28: both listings of the root succeeded, an uncategorized subdirectory
\* holds a video next to a season folder, and the analysis holds that video
\* nowhere.
C28_LooseVideoDropped ==
    /\ Returned
    /\ root.kind = "dir"
    /\ reads = <<TRUE, TRUE>>
    /\ \E i \in UnknownEntries :
          /\ SubAnalysis(i).seasons # << >>
          /\ \E v \in Range(EntryVideos(i)) : TimesHeld(v) = 0

-----------------------------------------------------------------------------
(* check_for_updates: a failed search touches no other series              *)

\* the records pushed for the series searched so far, in the order searched
RECURSIVE PushedUpTo(_)
PushedUpTo(n) ==
    IF n = 0 THEN << >> ELSE PushedUpTo(n - 1) \o searched[n].pushed

\* C30: check_for_updates takes the tracked series one after another and
\* independently: a series whose search failed has no update record, the
\* records of the series before it stay as they were pushed, and every later
\* series is still searched and can push records: the scan ends only when
\* every tracked series has been searched.
C30_FailureIsolated ==
    /\ Len(searched) = series_idx - 1
    /\ Len(searched) <= Len(tracked)
    /\ updates = PushedUpTo(Len(searched))
    /\ \A i \in DOMAIN searched :
          /\ searched[i].failed => searched[i].pushed = << >>
          /\ \A k \in DOMAIN searched[i].pushed :
                searched[i].pushed[k].series_title = tracked[i].title
    /\ pc = "done" <=> Len(searched) = Len(tracked)

\* C30: the search of the first series failed and the second series has
\* pushed a record.
C30_LaterSeriesPushes ==
    /\ pc = "done"
    /\ Len(searched) = 2
    /\ searched[1].failed
    /\ ~searched[2].failed
    /\ searched[2].pushed # << >>
    /\ updates = searched[2].pushed

\* C30: the first series pushed a record, the search of the second failed,
\* and the record is still there.
C30_EarlierRecordsKept ==
    /\ pc = "done"
    /\ Len(searched) = 2
    /\ searched[1].pushed # << >>
    /\ searched[2].failed
    /\ outcome = "err"
    /\ updates = searched[1].pushed

=============================================================================
